-------------------------- MODULE FablParserProofs --------------------------
(***************************************************************************)
(* Proofs about FablParser.                                                *)
(***************************************************************************)
EXTENDS FablParser, SequenceTheorems, FiniteSetTheorems, WellFoundedInduction, TLAPS

(***************************************************************************)
(* Induction over the naturals, for a set of them.                         *)
(***************************************************************************)
LEMMA InductiveSet ==
    ASSUME NEW S, 0 \in S, \A n \in Nat : n \in S => n + 1 \in S
    PROVE  Nat \subseteq S
<1> DEFINE R == {ss \in Nat \X Nat : ss[1] < ss[2]}
           out == {n \in Nat : n \notin S}
<1>1. IsWellFoundedOn(R, Nat)
  BY NatLessThanWellFounded DEF OpToRel
<1>2. SUFFICES ASSUME out # {} PROVE FALSE
  OBVIOUS
<1>3. out \subseteq Nat
  OBVIOUS
<1>4. \E x \in out : \A y \in out : ~(<<y, x>> \in R)
  <2> HIDE DEF R, out
  <2> QED
    BY <1>1, <1>2, <1>3, WFMin
<1>5. \A x, y \in Nat : <<y, x>> \in R <=> y < x
  OBVIOUS
<1>6. PICK x \in out : \A y \in out : ~(y < x)
  <2> HIDE DEF R
  <2> QED
    BY <1>3, <1>4, <1>5
<1>7. x # 0 /\ x \in Nat /\ x - 1 \in Nat /\ x = (x - 1) + 1
  BY <1>6
<1>8. x - 1 \in S
  BY <1>6, <1>7
<1> QED
  BY <1>6, <1>7, <1>8

----------------------------------------------------------------------------
(***************************************************************************)
(* Short sequences written as tuples.                                      *)
(***************************************************************************)
LEMMA Tuples ==
    ASSUME NEW a, NEW b, NEW c
    PROVE  /\ <<a>> \o <<b>> = <<a, b>>
           /\ <<a, b>> \o <<c>> = <<a, b, c>>
           /\ << >> \o <<a>> = <<a>> /\ <<a>> \o << >> = <<a>>
           /\ <<a, b>> \o << >> = <<a, b>> /\ <<a, b, c>> \o << >> = <<a, b, c>>
           /\ << >> \o << >> = << >>
<1> DEFINE S == {a, b, c}
           sa == <<a>>   sb == <<b>>   sc == <<c>>   ab == <<a, b>>   abc == <<a, b, c>>   e == << >>
<1>1. /\ sa \in Seq(S) /\ sb \in Seq(S) /\ sc \in Seq(S)
      /\ ab \in Seq(S) /\ abc \in Seq(S) /\ e \in Seq(S)
      /\ Len(sa) = 1 /\ Len(sb) = 1 /\ Len(sc) = 1 /\ Len(ab) = 2 /\ Len(abc) = 3
      /\ sa[1] = a /\ sb[1] = b /\ sc[1] = c
      /\ ab[1] = a /\ ab[2] = b /\ abc[1] = a /\ abc[2] = b /\ abc[3] = c
  OBVIOUS
<1>2. e = << >>
  OBVIOUS
<1> HIDE DEF sa, sb, sc, ab, abc, e
<1>3. sa \o sb \in Seq(S) /\ Len(sa \o sb) = 2 /\ (sa \o sb)[1] = a /\ (sa \o sb)[2] = b
  <2>1. sa \in Seq(S) /\ sb \in Seq(S)
    BY <1>1
  <2>2. /\ sa \o sb \in Seq(S) /\ Len(sa \o sb) = Len(sa) + Len(sb)
        /\ \A i \in 1..(Len(sa) + Len(sb)) : (sa \o sb)[i] = IF i <= Len(sa) THEN sa[i] ELSE sb[i - Len(sa)]
    BY ONLY <2>1, ConcatProperties
  <2> QED
    BY <1>1, <2>2
<1>4. sa \o sb = ab
  <2>1. \A i \in 1..2 : (sa \o sb)[i] = ab[i]
    <3> TAKE i \in 1..2
    <3>1. i = 1 \/ i = 2
      OBVIOUS
    <3> QED
      BY <1>1, <1>3, <3>1
  <2> QED
    BY <1>1, <1>3, <2>1, SeqEqual
<1>5. /\ ab \o sc \in Seq(S) /\ Len(ab \o sc) = 3
      /\ (ab \o sc)[1] = a /\ (ab \o sc)[2] = b /\ (ab \o sc)[3] = c
  <2>1. ab \in Seq(S) /\ sc \in Seq(S)
    BY <1>1
  <2>2. /\ ab \o sc \in Seq(S) /\ Len(ab \o sc) = Len(ab) + Len(sc)
        /\ \A i \in 1..(Len(ab) + Len(sc)) : (ab \o sc)[i] = IF i <= Len(ab) THEN ab[i] ELSE sc[i - Len(ab)]
    BY ONLY <2>1, ConcatProperties
  <2> QED
    BY <1>1, <2>2
<1>6. ab \o sc = abc
  <2>1. \A i \in 1..3 : (ab \o sc)[i] = abc[i]
    <3> TAKE i \in 1..3
    <3>1. i = 1 \/ i = 2 \/ i = 3
      OBVIOUS
    <3> QED
      BY <1>1, <1>5, <3>1
  <2> QED
    BY <1>1, <1>5, <2>1, SeqEqual, ZenonT(30)
<1>7. \A s \in {sa, ab, abc, e} : s \o << >> = s /\ << >> \o s = s
  BY <1>1, ConcatEmptySeq
<1> QED
  BY <1>2, <1>4, <1>6, <1>7 DEF sa, sb, sc, ab, abc

----------------------------------------------------------------------------
(***************************************************************************)
(* What a rule consumes.                                                   *)
(***************************************************************************)
Consumed(i, j) == SubSeq(text, i, j - 1)

LEMMA TextFacts ==
    ASSUME text \in Seq(Lexicon)
    PROVE  /\ Len(text) \in Nat /\ Positions = 1..(Len(text) + 1)
           /\ \A i \in 1..Len(text) : text[i] \in Lexicon
BY LenProperties, ElementOfSeq DEF Positions

LEMMA ConsumedFacts ==
    ASSUME text \in Seq(Lexicon), NEW i \in Positions, NEW j \in Positions, i <= j
    PROVE  /\ Consumed(i, j) \in Seq(Lexicon) /\ Len(Consumed(i, j)) = j - i
           /\ \A k \in 1..(j - i) : Consumed(i, j)[k] = text[i + k - 1]
<1>1. i \in Int /\ j - 1 \in Int /\ \A k \in i..(j - 1) : text[k] \in Lexicon
  BY TextFacts
<1>2. /\ Consumed(i, j) \in Seq(Lexicon)
      /\ Len(Consumed(i, j)) = IF i <= j - 1 THEN (j - 1) - i + 1 ELSE 0
      /\ \A k \in 1 .. ((j - 1) - i + 1) : Consumed(i, j)[k] = text[i + k - 1]
  BY <1>1, SubSeqProperties DEF Consumed
<1> QED
  BY <1>2, TextFacts

LEMMA ConsumedSplit ==
    ASSUME text \in Seq(Lexicon), NEW i \in Positions, NEW j \in Positions, NEW k \in Positions,
           i <= j, j <= k
    PROVE  Consumed(i, k) = Consumed(i, j) \o Consumed(j, k)
<1> DEFINE s == Consumed(i, j)   t == Consumed(j, k)   u == Consumed(i, k)
<1>0. i \in Int /\ j \in Int /\ k \in Int /\ i <= k
  BY TextFacts
<1>1. s \in Seq(Lexicon) /\ Len(s) = j - i /\ \A n \in 1..(j - i) : s[n] = text[i + n - 1]
  BY ConsumedFacts
<1>2. t \in Seq(Lexicon) /\ Len(t) = k - j /\ \A n \in 1..(k - j) : t[n] = text[j + n - 1]
  BY ConsumedFacts
<1>3. u \in Seq(Lexicon) /\ Len(u) = k - i /\ \A n \in 1..(k - i) : u[n] = text[i + n - 1]
  BY <1>0, ConsumedFacts
<1> HIDE DEF s, t, u
<1>4. /\ s \o t \in Seq(Lexicon) /\ Len(s \o t) = (j - i) + (k - j)
      /\ \A n \in 1..((j - i) + (k - j)) : (s \o t)[n] = IF n <= j - i THEN s[n] ELSE t[n - (j - i)]
  <2>1. s \in Seq(Lexicon) /\ t \in Seq(Lexicon)
    BY <1>1, <1>2
  <2>2. /\ s \o t \in Seq(Lexicon) /\ Len(s \o t) = Len(s) + Len(t)
        /\ \A n \in 1..(Len(s) + Len(t)) : (s \o t)[n] = IF n <= Len(s) THEN s[n] ELSE t[n - Len(s)]
    BY ONLY <2>1, ConcatProperties
  <2> QED
    BY <1>1, <1>2, <2>2
<1>5. \A n \in 1..Len(u) : u[n] = (s \o t)[n]
  <2> TAKE n \in 1..Len(u)
  <2>1. n \in 1..(k - i) /\ n \in 1..((j - i) + (k - j))
    BY <1>0, <1>3
  <2>2. CASE n <= j - i
    BY <1>0, <1>1, <1>3, <1>4, <2>1, <2>2
  <2>3. CASE ~(n <= j - i)
    <3>1. n - (j - i) \in 1..(k - j) /\ j + (n - (j - i)) - 1 = i + n - 1
      BY <1>0, <2>1, <2>3
    <3> QED
      BY <1>2, <1>3, <1>4, <2>1, <2>3, <3>1
  <2> QED
    BY <2>2, <2>3
<1>6. Len(u) = Len(s \o t)
  BY <1>0, <1>3, <1>4
<1> QED
  BY <1>3, <1>4, <1>5, <1>6, SeqEqual DEF s, t, u

(***************************************************************************)
(* A sequence is the tuple of its elements.                                *)
(***************************************************************************)
LEMMA SeqAsTuple ==
    ASSUME NEW S, NEW s \in Seq(S)
    PROVE  /\ Len(s) = 1 => s = <<s[1]>>
           /\ Len(s) = 2 => s = <<s[1], s[2]>>
           /\ Len(s) = 3 => s = <<s[1], s[2], s[3]>>
           /\ Len(s) = 4 => s = <<s[1], s[2], s[3], s[4]>>
           /\ Len(s) = 5 => s = <<s[1], s[2], s[3], s[4], s[5]>>
<1>1. s = [i \in 1..Len(s) |-> s[i]] /\ Len(s) \in Nat
  BY LenProperties
<1>2. ASSUME Len(s) = 1 PROVE s = <<s[1]>>
  BY <1>1, <1>2
<1>3. ASSUME Len(s) = 2 PROVE s = <<s[1], s[2]>>
  BY <1>1, <1>3
<1>4. ASSUME Len(s) = 3 PROVE s = <<s[1], s[2], s[3]>>
  BY <1>1, <1>4
<1>5. ASSUME Len(s) = 4 PROVE s = <<s[1], s[2], s[3], s[4]>>
  BY <1>1, <1>5
<1>6. ASSUME Len(s) = 5 PROVE s = <<s[1], s[2], s[3], s[4], s[5]>>
  BY <1>1, <1>6
<1> QED
  BY <1>2, <1>3, <1>4, <1>5, <1>6

(***************************************************************************)
(* The lexemes consumed by runs of up to five.                             *)
(***************************************************************************)
LEMMA ConsumedRun ==
    ASSUME text \in Seq(Lexicon), NEW i \in Positions
    PROVE  /\ i <= Len(text) => Consumed(i, i + 1) = <<text[i]>>
           /\ i + 1 <= Len(text) => Consumed(i, i + 2) = <<text[i], text[i + 1]>>
           /\ i + 2 <= Len(text) => Consumed(i, i + 3) = <<text[i], text[i + 1], text[i + 2]>>
           /\ i + 3 <= Len(text) =>
                 Consumed(i, i + 4) = <<text[i], text[i + 1], text[i + 2], text[i + 3]>>
           /\ i + 4 <= Len(text) =>
                 Consumed(i, i + 5) = <<text[i], text[i + 1], text[i + 2], text[i + 3], text[i + 4]>>
<1>1. /\ Len(text) \in Nat /\ i \in Nat /\ i >= 1
      /\ \A j \in Positions : i <= j =>
            /\ Consumed(i, j) \in Seq(Lexicon) /\ Len(Consumed(i, j)) = j - i
            /\ \A k \in 1..(j - i) : Consumed(i, j)[k] = text[i + k - 1]
  BY TextFacts, ConsumedFacts
<1>2. \A n \in 1..5 : i + n - 1 <= Len(text) =>
          /\ Consumed(i, i + n) \in Seq(Lexicon) /\ Len(Consumed(i, i + n)) = n
          /\ \A k \in 1..n : Consumed(i, i + n)[k] = text[i + k - 1]
  <2> TAKE n \in 1..5
  <2> HAVE i + n - 1 <= Len(text)
  <2>1. i + n \in Positions /\ i <= i + n /\ (i + n) - i = n
    BY <1>1 DEF Positions
  <2> QED
    BY <1>1, <2>1
<1>4. i + 1 - 1 = i /\ i + 2 - 1 = i + 1 /\ i + 3 - 1 = i + 2 /\ i + 4 - 1 = i + 3 /\ i + 5 - 1 = i + 4
  BY <1>1
<1>5. ASSUME i <= Len(text) PROVE Consumed(i, i + 1) = <<text[i]>>
  <2>1. /\ Consumed(i, i + 1) \in Seq(Lexicon) /\ Len(Consumed(i, i + 1)) = 1
        /\ Consumed(i, i + 1)[1] = text[i]
    BY <1>2, <1>4, <1>5
  <2> QED
    BY <2>1, SeqAsTuple
<1>6. ASSUME i + 1 <= Len(text) PROVE Consumed(i, i + 2) = <<text[i], text[i + 1]>>
  <2>1. /\ Consumed(i, i + 2) \in Seq(Lexicon) /\ Len(Consumed(i, i + 2)) = 2
        /\ Consumed(i, i + 2)[1] = text[i]
        /\ Consumed(i, i + 2)[2] = text[i + 1]
    BY <1>2, <1>4, <1>6
  <2> QED
    BY <2>1, SeqAsTuple
<1>7. ASSUME i + 2 <= Len(text) PROVE Consumed(i, i + 3) = <<text[i], text[i + 1], text[i + 2]>>
  <2>1. /\ Consumed(i, i + 3) \in Seq(Lexicon) /\ Len(Consumed(i, i + 3)) = 3
        /\ Consumed(i, i + 3)[1] = text[i]
        /\ Consumed(i, i + 3)[2] = text[i + 1]
        /\ Consumed(i, i + 3)[3] = text[i + 2]
    BY <1>2, <1>4, <1>7
  <2> QED
    BY <2>1, SeqAsTuple
<1>8. ASSUME i + 3 <= Len(text) PROVE Consumed(i, i + 4) = <<text[i], text[i + 1], text[i + 2], text[i + 3]>>
  <2>1. /\ Consumed(i, i + 4) \in Seq(Lexicon) /\ Len(Consumed(i, i + 4)) = 4
        /\ Consumed(i, i + 4)[1] = text[i]
        /\ Consumed(i, i + 4)[2] = text[i + 1]
        /\ Consumed(i, i + 4)[3] = text[i + 2]
        /\ Consumed(i, i + 4)[4] = text[i + 3]
    BY <1>2, <1>4, <1>8
  <2> QED
    BY <2>1, SeqAsTuple
<1>9. ASSUME i + 4 <= Len(text) PROVE Consumed(i, i + 5) = <<text[i], text[i + 1], text[i + 2], text[i + 3], text[i + 4]>>
  <2>1. /\ Consumed(i, i + 5) \in Seq(Lexicon) /\ Len(Consumed(i, i + 5)) = 5
        /\ Consumed(i, i + 5)[1] = text[i]
        /\ Consumed(i, i + 5)[2] = text[i + 1]
        /\ Consumed(i, i + 5)[3] = text[i + 2]
        /\ Consumed(i, i + 5)[4] = text[i + 3]
        /\ Consumed(i, i + 5)[5] = text[i + 4]
    BY <1>2, <1>4, <1>9
  <2> QED
    BY <2>1, SeqAsTuple
<1> QED
  BY <1>5, <1>6, <1>7, <1>8, <1>9

----------------------------------------------------------------------------
(***************************************************************************)
(* The combinators.                                                        *)
(***************************************************************************)
LEMMA OneLexeme ==
    ASSUME text \in Seq(Lexicon), NEW lexeme, NEW built, NEW i \in Positions
    PROVE  MatchLexemes(<<lexeme>>, built)[i] =
             IF i <= Len(text) /\ text[i] = lexeme THEN {Match(i + 1, built)} ELSE {}
<1>1. i \in Nat /\ Len(text) \in Nat /\ Len(<<lexeme>>) = 1 /\ i + 1 - 1 = i
  BY TextFacts
<1>2. MatchLexemes(<<lexeme>>, built)[i] =
        IF i + 1 <= Len(text) + 1 /\ Consumed(i, i + 1) = <<lexeme>>
        THEN {Match(i + 1, built)} ELSE {}
  BY <1>1 DEF MatchLexemes, Consumed
<1>3. i <= Len(text) => Consumed(i, i + 1) = <<text[i]>>
  BY ConsumedRun
<1>4. <<text[i]>> = <<lexeme>> <=> text[i] = lexeme
  OBVIOUS
<1> QED
  BY <1>1, <1>2, <1>3, <1>4

LEMMA TwoLexemes ==
    ASSUME text \in Seq(Lexicon), NEW first, NEW second, NEW built, NEW i \in Positions
    PROVE  MatchLexemes(<<first, second>>, built)[i] =
             IF i + 1 <= Len(text) /\ text[i] = first /\ text[i + 1] = second
             THEN {Match(i + 2, built)} ELSE {}
<1>1. i \in Nat /\ Len(text) \in Nat /\ Len(<<first, second>>) = 2 /\ i + 2 - 1 = i + 1
  BY TextFacts
<1>2. MatchLexemes(<<first, second>>, built)[i] =
        IF i + 2 <= Len(text) + 1 /\ Consumed(i, i + 2) = <<first, second>>
        THEN {Match(i + 2, built)} ELSE {}
  BY <1>1 DEF MatchLexemes, Consumed
<1>3. i + 1 <= Len(text) => Consumed(i, i + 2) = <<text[i], text[i + 1]>>
  BY ConsumedRun
<1>4. <<text[i], text[i + 1]>> = <<first, second>> <=> text[i] = first /\ text[i + 1] = second
  OBVIOUS
<1> QED
  BY <1>1, <1>2, <1>3, <1>4

LEMMA AnyLexeme ==
    ASSUME NEW lexemes, NEW is, NEW i \in Positions
    PROVE  MatchAny(lexemes, is)[i] =
             IF i <= Len(text) /\ text[i] \in lexemes THEN {Match(i + 1, <<Leaf(is, text[i])>>)} ELSE {}
BY DEF MatchAny

LEMMA Row ==
    ASSUME NEW r, NEW s, NEW i \in Positions
    PROVE  \A m : m \in (r ++ s)[i] <=>
              \E a \in r[i] : \E b \in s[a.to] : m = Match(b.to, a.built \o b.built)
BY DEF ++, sequence

LEMMA Alternative ==
    ASSUME NEW r, NEW s, NEW i \in Positions
    PROVE  (r | s)[i] = IF r[i] # {} THEN r[i] ELSE s[i]
BY DEF |, or_rule

LEMMA Production ==
    ASSUME NEW is, NEW r, NEW i \in Positions
    PROVE  match_production(is, r)[i] = {Match(m.to, <<Node(is, m.built)>>) : m \in r[i]}
BY DEF match_production

----------------------------------------------------------------------------
(***************************************************************************)
(* FlattenSeq joins sequences; it is defined by a recursive function, of   *)
(* which IsFlattening is the equation.                                     *)
(***************************************************************************)
IsFlattening(f, seqs, n) ==
    f = [i \in 1..n |-> IF i = 1 THEN seqs[i] ELSE f[i - 1] \o seqs[i]]

LEMMA FlatteningExists ==
    ASSUME NEW seqs, NEW n \in Nat
    PROVE  \E f : IsFlattening(f, seqs, n)
<1> DEFINE S == {k \in Nat : \E f : IsFlattening(f, seqs, k)}
<1>1. 0 \in S
  <2> DEFINE f == [i \in 1..0 |-> seqs]
  <2>1. IsFlattening(f, seqs, 0)
    BY DEF IsFlattening
  <2> QED
    BY <2>1
<1>2. ASSUME NEW k \in Nat, k \in S PROVE k + 1 \in S
  <2>1. PICK f : IsFlattening(f, seqs, k)
    BY <1>2
  <2> DEFINE value(i) == IF i = 1 THEN seqs[i] ELSE f[i - 1] \o seqs[i]
             g == [i \in 1..(k + 1) |-> value(i)]
  <2>2. \A i \in 1..k : f[i] = value(i)
    BY <2>1 DEF IsFlattening
  <2>3. \A i \in 1..(k + 1) : g[i] = value(i)
    OBVIOUS
  <2>4. \A i \in 1..k : g[i] = f[i]
    <3> HIDE DEF g, value
    <3> QED
      BY <2>2, <2>3
  <2>5. \A i \in 1..(k + 1) : i = 1 \/ i - 1 \in 1..k
    OBVIOUS
  <2>6. \A i \in 1..(k + 1) : g[i] = IF i = 1 THEN seqs[i] ELSE g[i - 1] \o seqs[i]
    <3> TAKE i \in 1..(k + 1)
    <3>1. g[i] = IF i = 1 THEN seqs[i] ELSE f[i - 1] \o seqs[i]
      BY <2>3
    <3> HIDE DEF g
    <3> QED
      BY <2>4, <2>5, <3>1
  <2>7. g = [i \in 1..(k + 1) |-> g[i]]
    OBVIOUS
  <2>8. IsFlattening(g, seqs, k + 1)
    <3> HIDE DEF g
    <3> QED
      BY <2>6, <2>7 DEF IsFlattening
  <2> QED
    BY <2>8
<1>3. Nat \subseteq S
  <2> HIDE DEF S
  <2> QED
    BY <1>1, <1>2, InductiveSet
<1> QED
  BY <1>3

LEMMA FlatteningUnique ==
    ASSUME NEW s, NEW t, NEW n \in Nat, NEW m \in Nat, n <= m,
           \A i \in 1..n : s[i] = t[i],
           NEW f, IsFlattening(f, s, n), NEW g, IsFlattening(g, t, m)
    PROVE  \A i \in 1..n : f[i] = g[i]
<1> DEFINE S == {k \in Nat : k \in 1..n => f[k] = g[k]}
<1>1. 0 \in S
  OBVIOUS
<1>2. ASSUME NEW k \in Nat, k \in S PROVE k + 1 \in S
  <2> SUFFICES ASSUME k + 1 \in 1..n PROVE f[k + 1] = g[k + 1]
    OBVIOUS
  <2>1. /\ k + 1 \in 1..m /\ (k + 1) - 1 = k /\ (k + 1 # 1 => k \in 1..n)
        /\ s[k + 1] = t[k + 1]
    OBVIOUS
  <2>2. f[k + 1] = IF k + 1 = 1 THEN s[k + 1] ELSE f[(k + 1) - 1] \o s[k + 1]
    BY DEF IsFlattening
  <2>3. g[k + 1] = IF k + 1 = 1 THEN t[k + 1] ELSE g[(k + 1) - 1] \o t[k + 1]
    BY <2>1 DEF IsFlattening
  <2> QED
    BY <1>2, <2>1, <2>2, <2>3
<1>3. Nat \subseteq S
  <2> HIDE DEF S
  <2> QED
    BY <1>1, <1>2, InductiveSet
<1> QED
  BY <1>3

LEMMA FlattenSeqIs ==
    ASSUME NEW seqs, Len(seqs) \in Nat, Len(seqs) # 0, NEW f, IsFlattening(f, seqs, Len(seqs))
    PROVE  FlattenSeq(seqs) = f[Len(seqs)]
<1> DEFINE n == Len(seqs)
           c == CHOOSE g : IsFlattening(g, seqs, n)
<1>1. IsFlattening(c, seqs, n)
  BY FlatteningExists
<1>2. FlattenSeq(seqs) = c[n]
  BY DEF FlattenSeq, IsFlattening
<1>3. c[n] = f[n]
  <2>1. IsFlattening(f, seqs, n) /\ n \in Nat /\ n <= n /\ n \in 1..n
    OBVIOUS
  <2>2. \A i \in 1..n : seqs[i] = seqs[i]
    OBVIOUS
  <2> DEFINE m == n
  <2>3. m \in Nat /\ n <= m /\ IsFlattening(f, seqs, m)
    BY <2>1
  <2> HIDE DEF c, n, m
  <2>4. \A i \in 1..n : c[i] = f[i]
    BY <1>1, <2>1, <2>2, <2>3, FlatteningUnique, SMTT(30)
  <2> QED
    BY <2>1, <2>4
<1> QED
  BY <1>2, <1>3

LEMMA FlattenEmpty == FlattenSeq(<< >>) = << >>
BY DEF FlattenSeq

LEMMA FlattenAppend ==
    ASSUME NEW S, NEW seqs \in Seq(Seq(S)), NEW s \in Seq(S)
    PROVE  FlattenSeq(Append(seqs, s)) = FlattenSeq(seqs) \o s
<1> DEFINE n == Len(seqs)   t == Append(seqs, s)
<1>1. n \in Nat /\ Len(t) = n + 1 /\ t[n + 1] = s /\ \A i \in 1..n : t[i] = seqs[i]
  BY LenProperties, AppendProperties
<1>0. n = Len(seqs)
  OBVIOUS
<1> HIDE DEF t, n
<1>2. PICK f : IsFlattening(f, seqs, n)
  BY <1>1, FlatteningExists
<1>3. PICK g : IsFlattening(g, t, n + 1)
  <2>1. n + 1 \in Nat
    BY <1>1
  <2> QED
    BY <2>1, FlatteningExists
<1>4. FlattenSeq(t) = g[n + 1]
  <2>1. Len(t) \in Nat /\ Len(t) # 0 /\ IsFlattening(g, t, Len(t))
    BY <1>1, <1>3
  <2> QED
    BY <1>1, <2>1, FlattenSeqIs
<1>5. g[n + 1] = IF n + 1 = 1 THEN t[n + 1] ELSE g[(n + 1) - 1] \o t[n + 1]
  <2>1. n + 1 \in 1..(n + 1)
    BY <1>1
  <2> QED
    BY <1>3, <2>1 DEF IsFlattening
<1>6. CASE n = 0
  <2>1. seqs = << >>
    BY <1>0, <1>6, EmptySeq
  <2>2. FlattenSeq(seqs) = << >> /\ << >> \o s = s
    BY <2>1, FlattenEmpty, ConcatEmptySeq
  <2> QED
    BY <1>1, <1>4, <1>5, <1>6, <2>2 DEF t
<1>7. CASE n # 0
  <2>1. \A i \in 1..n : f[i] = g[i]
    <3>1. n \in Nat /\ n + 1 \in Nat /\ n <= n + 1 /\ \A i \in 1..n : seqs[i] = t[i]
      BY <1>1
    <3> DEFINE m == n + 1
    <3>2. m \in Nat /\ n <= m /\ IsFlattening(g, t, m)
      BY <1>3, <3>1
    <3> HIDE DEF m
    <3> QED
      BY <1>2, <3>1, <3>2, FlatteningUnique
  <2>2. FlattenSeq(seqs) = f[n]
    BY <1>0, <1>1, <1>2, <1>7, FlattenSeqIs
  <2>3. g[n + 1] = f[n] \o s
    <3>1. n + 1 # 1 /\ (n + 1) - 1 = n /\ n \in 1..n
      BY <1>1, <1>7
    <3> QED
      BY <1>1, <1>5, <2>1, <3>1
  <2> QED
    BY <1>4, <2>2, <2>3 DEF t
<1> QED
  BY <1>6, <1>7

LEMMA FlattenType ==
    ASSUME NEW S, NEW seqs \in Seq(Seq(S))
    PROVE  FlattenSeq(seqs) \in Seq(S)
<1> DEFINE D == {n \in Nat : \A s \in Seq(Seq(S)) : Len(s) = n => FlattenSeq(s) \in Seq(S)}
<1>1. 0 \in D
  <2>1. \A s \in Seq(Seq(S)) : Len(s) = 0 => s = << >>
    BY EmptySeq
  <2>2. FlattenSeq(<< >>) \in Seq(S)
    BY FlattenEmpty, EmptySeq
  <2> QED
    BY <2>1, <2>2
<1>2. ASSUME NEW n \in Nat, n \in D PROVE n + 1 \in D
  <2> SUFFICES ASSUME NEW s \in Seq(Seq(S)), Len(s) = n + 1 PROVE FlattenSeq(s) \in Seq(S)
    OBVIOUS
  <2>1. s # << >>
    BY EmptySeq
  <2>2. PICK t \in Seq(Seq(S)), e \in Seq(S) : s = Append(t, e)
    BY <2>1, SequenceEmptyOrAppend
  <2>3. Len(t) \in Nat /\ Len(t) + 1 = n + 1
    BY <2>2, AppendProperties, LenProperties
  <2>4. FlattenSeq(t) \in Seq(S)
    BY <1>2, <2>3
  <2>5. FlattenSeq(s) = FlattenSeq(t) \o e
    BY <2>2, FlattenAppend
  <2> QED
    BY <2>4, <2>5, ConcatProperties
<1>3. Nat \subseteq D
  <2> HIDE DEF D
  <2> QED
    BY <1>1, <1>2, InductiveSet
<1> QED
  BY <1>3, LenProperties

LEMMA FlattenConcat ==
    ASSUME NEW S, NEW a \in Seq(Seq(S)), NEW b \in Seq(Seq(S))
    PROVE  FlattenSeq(a \o b) = FlattenSeq(a) \o FlattenSeq(b)
<1> DEFINE D == {n \in Nat : \A s \in Seq(Seq(S)) :
                    Len(s) = n => FlattenSeq(a \o s) = FlattenSeq(a) \o FlattenSeq(s)}
<1>0. FlattenSeq(a) \in Seq(S)
  BY FlattenType
<1>1. 0 \in D
  <2>1. \A s \in Seq(Seq(S)) : Len(s) = 0 => s = << >>
    BY EmptySeq
  <2>2. FlattenSeq(a \o << >>) = FlattenSeq(a) \o FlattenSeq(<< >>)
    BY <1>0, FlattenEmpty, ConcatEmptySeq
  <2> QED
    BY <2>1, <2>2
<1>2. ASSUME NEW n \in Nat, n \in D PROVE n + 1 \in D
  <2> SUFFICES ASSUME NEW s \in Seq(Seq(S)), Len(s) = n + 1
               PROVE  FlattenSeq(a \o s) = FlattenSeq(a) \o FlattenSeq(s)
    OBVIOUS
  <2>1. s # << >>
    BY EmptySeq
  <2>2. PICK t \in Seq(Seq(S)), e \in Seq(S) : s = Append(t, e)
    BY <2>1, SequenceEmptyOrAppend
  <2>3. Len(t) \in Nat /\ Len(t) + 1 = n + 1
    BY <2>2, AppendProperties, LenProperties
  <2>4. FlattenSeq(a \o t) = FlattenSeq(a) \o FlattenSeq(t)
    BY <1>2, <2>3, SMTT(30)
  <2>5. FlattenSeq(s) = FlattenSeq(t) \o e
    BY <2>2, FlattenAppend
  <2>6. a \o s = Append(a \o t, e)
    <3> DEFINE Q == Seq(S)
    <3>1. a \in Seq(Q) /\ t \in Seq(Q) /\ e \in Q /\ <<e>> \in Seq(Q)
      OBVIOUS
    <3> HIDE DEF Q
    <3>2. s = t \o <<e>> /\ a \o t \in Seq(Q)
      BY <2>2, <3>1, AppendIsConcat, ConcatProperties
    <3>3. a \o (t \o <<e>>) = (a \o t) \o <<e>>
      BY <3>1, ConcatAssociative, SMTT(30)
    <3>4. Append(a \o t, e) = (a \o t) \o <<e>>
      BY <3>1, <3>2, AppendIsConcat
    <3> QED
      BY <3>2, <3>3, <3>4
  <2>7. a \o t \in Seq(Seq(S)) /\ FlattenSeq(t) \in Seq(S)
    BY ConcatProperties, FlattenType
  <2>8. FlattenSeq(a \o s) = FlattenSeq(a \o t) \o e
    BY <2>6, <2>7, FlattenAppend
  <2>9. (FlattenSeq(a) \o FlattenSeq(t)) \o e = FlattenSeq(a) \o (FlattenSeq(t) \o e)
    <3> DEFINE fa == FlattenSeq(a)   ft == FlattenSeq(t)
    <3>1. fa \in Seq(S) /\ ft \in Seq(S) /\ e \in Seq(S)
      BY <1>0, <2>7
    <3> HIDE DEF fa, ft
    <3>2. (fa \o ft) \o e = fa \o (ft \o e)
      BY ONLY <3>1, ConcatAssociative, SMTT(60)
    <3> QED
      BY <3>2 DEF fa, ft
  <2> QED
    BY <2>4, <2>5, <2>8, <2>9
<1>3. Nat \subseteq D
  <2> HIDE DEF D
  <2> QED
    BY <1>1, <1>2, InductiveSet
<1> QED
  BY <1>3, LenProperties

(***************************************************************************)
(* The lexemes of nodes whose texts are those of a function T.             *)
(***************************************************************************)
Written(nodes, T) == FlattenSeq([k \in DOMAIN nodes |-> T[nodes[k]]])

TextsOf(S) == [S -> Seq(Lexicon)]

LEMMA WrittenFacts ==
    ASSUME NEW S, NEW T \in TextsOf(S), NEW a \in Seq(S), NEW b \in Seq(S)
    PROVE  /\ Written(a, T) \in Seq(Lexicon)
           /\ Written(a \o b, T) = Written(a, T) \o Written(b, T)
<1> USE DEF TextsOf
<1> DEFINE Texts(s) == [k \in DOMAIN s |-> T[s[k]]]
<1>1. \A s \in Seq(S) : /\ Texts(s) \in Seq(Seq(Lexicon)) /\ Len(Texts(s)) = Len(s)
                        /\ \A k \in 1..Len(s) : Texts(s)[k] = T[s[k]]
  <2> TAKE s \in Seq(S)
  <2>1. Len(s) \in Nat /\ DOMAIN s = 1..Len(s) /\ \A k \in 1..Len(s) : s[k] \in S
    BY LenProperties, ElementOfSeq
  <2>2. Texts(s) = [k \in 1..Len(s) |-> T[s[k]]] /\ \A k \in 1..Len(s) : T[s[k]] \in Seq(Lexicon)
    BY <2>1
  <2> QED
    BY <2>1, <2>2
<1>2. a \o b \in Seq(S) /\ Len(a) \in Nat /\ Len(b) \in Nat /\ Len(a \o b) = Len(a) + Len(b)
  BY ConcatProperties, LenProperties
<1>3. \A k \in 1..(Len(a) + Len(b)) : (a \o b)[k] = IF k <= Len(a) THEN a[k] ELSE b[k - Len(a)]
  BY ConcatProperties
<1>4. Texts(a \o b) = Texts(a) \o Texts(b)
  <2> HIDE DEF Texts
  <2>1. /\ Texts(a) \o Texts(b) \in Seq(Seq(Lexicon))
        /\ Len(Texts(a) \o Texts(b)) = Len(a) + Len(b)
        /\ \A k \in 1..(Len(a) + Len(b)) : (Texts(a) \o Texts(b))[k] =
              IF k <= Len(a) THEN Texts(a)[k] ELSE Texts(b)[k - Len(a)]
    <3> DEFINE ta == Texts(a)   tb == Texts(b)   Q == Seq(Lexicon)
    <3>1. ta \in Seq(Q) /\ tb \in Seq(Q) /\ Len(ta) = Len(a) /\ Len(tb) = Len(b)
      BY <1>1
    <3> HIDE DEF ta, tb, Q
    <3>2. /\ ta \o tb \in Seq(Q) /\ Len(ta \o tb) = Len(ta) + Len(tb)
          /\ \A k \in 1..(Len(ta) + Len(tb)) :
                (ta \o tb)[k] = IF k <= Len(ta) THEN ta[k] ELSE tb[k - Len(ta)]
      BY ONLY <3>1, ConcatProperties
    <3> QED
      BY <3>1, <3>2 DEF ta, tb, Q
  <2>2. \A k \in 1..Len(Texts(a \o b)) : Texts(a \o b)[k] = (Texts(a) \o Texts(b))[k]
    <3> TAKE k \in 1..Len(Texts(a \o b))
    <3>1. k \in 1..(Len(a) + Len(b)) /\ Texts(a \o b)[k] = T[(a \o b)[k]]
      BY <1>1, <1>2
    <3>2. CASE k <= Len(a)
      <4>1. k \in 1..Len(a)
        BY <1>2, <3>1, <3>2
      <4> QED
        BY <1>1, <1>3, <2>1, <3>1, <3>2, <4>1
    <3>3. CASE ~(k <= Len(a))
      <4>1. k - Len(a) \in 1..Len(b)
        BY <1>2, <3>1, <3>3
      <4> QED
        BY <1>1, <1>3, <2>1, <3>1, <3>3, <4>1
    <3> QED
      BY <3>2, <3>3
  <2> DEFINE s == Texts(a \o b)   t == Texts(a) \o Texts(b)   Q == Seq(Lexicon)
  <2>3. s \in Seq(Q) /\ t \in Seq(Q) /\ Len(s) = Len(t) /\ \A k \in 1..Len(s) : s[k] = t[k]
    BY <1>1, <1>2, <2>1, <2>2
  <2> HIDE DEF s, t, Q
  <2>4. s = t
    BY ONLY <2>3, SeqEqual
  <2> QED
    BY <2>4 DEF s, t
<1>5. Texts(a) \in Seq(Seq(Lexicon)) /\ Texts(b) \in Seq(Seq(Lexicon))
  BY <1>1
<1>6. /\ Written(a, T) = FlattenSeq(Texts(a)) /\ Written(b, T) = FlattenSeq(Texts(b))
      /\ Written(a \o b, T) = FlattenSeq(Texts(a \o b))
  BY DEF Written
<1> HIDE DEF Texts
<1>7. FlattenSeq(Texts(a) \o Texts(b)) = FlattenSeq(Texts(a)) \o FlattenSeq(Texts(b))
  BY <1>5, FlattenConcat
<1>8. FlattenSeq(Texts(a)) \in Seq(Lexicon)
  BY <1>5, FlattenType
<1> QED
  BY <1>4, <1>6, <1>7, <1>8

LEMMA WrittenOne ==
    ASSUME NEW S, NEW T \in TextsOf(S)
    PROVE  /\ Written(<< >>, T) = << >>
           /\ \A x \in S : Written(<<x>>, T) = T[x]
<1> USE DEF TextsOf
<1>1. Written(<< >>, T) = << >>
  <2>1. [k \in DOMAIN << >> |-> T[<< >>[k]]] = << >>
    OBVIOUS
  <2> QED
    BY <2>1, FlattenEmpty DEF Written
<1>2. ASSUME NEW x \in S PROVE Written(<<x>>, T) = T[x]
  <2>1. [k \in DOMAIN <<x>> |-> T[<<x>>[k]]] = <<T[x]>>
    OBVIOUS
  <2>2. T[x] \in Seq(Lexicon)
    OBVIOUS
  <2> DEFINE y == T[x]
  <2> HIDE DEF y
  <2>3. <<y>> = Append(<< >>, y)
    OBVIOUS
  <2>4. FlattenSeq(<<y>>) = FlattenSeq(<< >>) \o y
    BY <2>2, <2>3, FlattenAppend, EmptySeq DEF y
  <2> QED
    BY <2>1, <2>2, <2>4, FlattenEmpty, ConcatEmptySeq DEF Written, y
<1> QED
  BY <1>1, <1>2

LEMMA WrittenCons ==
    ASSUME NEW S, NEW T \in TextsOf(S), NEW x \in S, NEW b \in Seq(S)
    PROVE  /\ <<x>> \o b \in Seq(S)
           /\ Written(<<x>> \o b, T) = T[x] \o Written(b, T)
<1> DEFINE a == <<x>>
<1>1. a \in Seq(S) /\ Written(a, T) = T[x]
  BY WrittenOne
<1> HIDE DEF a
<1>2. Written(a \o b, T) = Written(a, T) \o Written(b, T)
  BY <1>1, WrittenFacts
<1>3. a \o b \in Seq(S)
  BY <1>1, ConcatProperties
<1> QED
  BY <1>1, <1>2, <1>3 DEF a

----------------------------------------------------------------------------
(***************************************************************************)
(* The list of a rule whose matches lie ahead: its recursive definition    *)
(* has a solution, so it satisfies its equation.                           *)
(***************************************************************************)
Ahead(r) == \A i \in Positions : \A m \in r[i] : m.to \in Positions /\ i < m.to

LEMMA RowLocal ==
    ASSUME NEW r, NEW q, NEW s, NEW t, NEW i \in Positions,
           r[i] = q[i], \A m \in r[i] : s[m.to] = t[m.to]
    PROVE  (r ++ s)[i] = (q ++ t)[i]
<1>1. \A m : m \in (r ++ s)[i] <=> m \in (q ++ t)[i]
  BY Row
<1>2. (r ++ s)[i] = UNION {{Match(n.to, m.built \o n.built) : n \in s[m.to]} : m \in r[i]}
  BY DEF ++, sequence
<1>3. (q ++ t)[i] = UNION {{Match(n.to, m.built \o n.built) : n \in t[m.to]} : m \in q[i]}
  BY DEF ++, sequence
<1> DEFINE a == (r ++ s)[i]   b == (q ++ t)[i]
<1>4. (\A m \in a : m \in b) /\ (\A m \in b : m \in a)
  BY <1>1
<1> HIDE DEF a, b
<1>5. a = b
  BY <1>2, <1>3, <1>4 DEF a, b
<1> QED
  BY <1>5 DEF a, b

IsList(L, r) == L = [i \in Positions |-> ((r ++ L) | nothing)[i]]

LEMMA ListExists ==
    ASSUME text \in Seq(Lexicon), NEW r, Ahead(r)
    PROVE  IsList(list(r), r)
<1> DEFINE N == Len(text) + 1
           Solves(L, n) == /\ L = [i \in Positions |-> L[i]]
                           /\ \A i \in Positions : N - n < i => L[i] = ((r ++ L) | nothing)[i]
           S == {n \in Nat : \E L : Solves(L, n)}
<1>0. N \in Nat /\ Positions = 1..N
  BY TextFacts
<1> HIDE DEF N
<1>1. 0 \in S
  <2> DEFINE L == [i \in Positions |-> {}]
  <2>1. L = [i \in Positions |-> L[i]]
    OBVIOUS
  <2>2. \A i \in Positions : ~(N - 0 < i)
    BY <1>0
  <2>3. Solves(L, 0)
    BY <2>1, <2>2
  <2> QED
    BY <2>3
<1>2. ASSUME NEW n \in Nat, n \in S PROVE n + 1 \in S
  <2>1. PICK L : Solves(L, n)
    BY <1>2
  <2> DEFINE k == N - n
             K == [i \in Positions |-> IF i = k THEN ((r ++ L) | nothing)[i] ELSE L[i]]
  <2>2. k \in Int /\ k = N - n
    BY <1>0
  <2>3. K = [i \in Positions |-> K[i]]
    OBVIOUS
  <2>4. \A i \in Positions : K[i] = IF i = k THEN ((r ++ L) | nothing)[i] ELSE L[i]
    OBVIOUS
  <2> HIDE DEF K, k
  <2>5. \A i \in Positions : k <= i => ((r ++ K) | nothing)[i] = ((r ++ L) | nothing)[i]
    <3> TAKE i \in Positions
    <3> HAVE k <= i
    <3>1. \A m \in r[i] : K[m.to] = L[m.to]
      <4> TAKE m \in r[i]
      <4>1. m.to \in Positions /\ i < m.to
        BY DEF Ahead
      <4>2. m.to # k
        BY <1>0, <2>2, <4>1
      <4> QED
        BY <2>4, <4>1, <4>2
    <3>2. (r ++ K)[i] = (r ++ L)[i]
      BY <3>1, RowLocal
    <3> QED
      BY <3>2, Alternative
  <2>6. \A i \in Positions : N - (n + 1) < i => K[i] = ((r ++ K) | nothing)[i]
    <3> TAKE i \in Positions
    <3> HAVE N - (n + 1) < i
    <3>1. k <= i
      BY <1>0, <2>2
    <3>2. CASE i = k
      BY <2>4, <2>5, <3>1, <3>2
    <3>3. CASE i # k
      <4>1. N - n < i
        BY <1>0, <2>2, <3>1, <3>3
      <4>2. L[i] = ((r ++ L) | nothing)[i]
        BY <2>1, <4>1
      <4> QED
        BY <2>4, <2>5, <3>1, <3>3, <4>2
    <3> QED
      BY <3>2, <3>3
  <2>7. n + 1 \in Nat
    OBVIOUS
  <2>8. Solves(K, n + 1)
    BY <2>3, <2>6
  <2> QED
    BY <2>7, <2>8
<1>3. Nat \subseteq S
  <2> HIDE DEF S
  <2> QED
    BY <1>1, <1>2, InductiveSet
<1>4. PICK L : Solves(L, N)
  BY <1>0, <1>3
<1>5. IsList(L, r)
  <2>1. \A i \in Positions : N - N < i
    BY <1>0
  <2> QED
    BY <1>4, <2>1 DEF IsList
<1>6. list(r) = CHOOSE K : IsList(K, r)
  BY DEF list, IsList
<1> QED
  BY <1>5, <1>6

LEMMA ListEquation ==
    ASSUME text \in Seq(Lexicon), NEW r, Ahead(r), NEW i \in Positions
    PROVE  list(r)[i] = ((r ++ list(r)) | nothing)[i]
<1>1. IsList(list(r), r)
  BY ListExists
<1> DEFINE L == list(r)
<1>2. L = [k \in Positions |-> ((r ++ L) | nothing)[k]]
  BY <1>1 DEF IsList
<1> HIDE DEF L
<1>3. L[i] = ((r ++ L) | nothing)[i]
  BY <1>2
<1> QED
  BY <1>3 DEF L

(***************************************************************************)
(* A rule that reads one element of S reads what T says of it; then the    *)
(* list of the rule reads a sequence of them, as it is written.            *)
(***************************************************************************)
ReadsOne(r, S, T) ==
    \A i \in Positions : \A m \in r[i] :
       /\ m.to \in Positions /\ i < m.to
       /\ \E x \in S : m.built = <<x>> /\ Consumed(i, m.to) = T[x]

ReadsMany(r, S, T) ==
    \A i \in Positions : \A m \in r[i] :
       /\ m.to \in Positions /\ i <= m.to
       /\ m.built \in Seq(S) /\ Consumed(i, m.to) = Written(m.built, T)

LEMMA EmptyConsumed ==
    ASSUME text \in Seq(Lexicon), NEW i \in Positions
    PROVE  Consumed(i, i) = << >>
<1>1. i \in Nat /\ i <= i /\ i - i = 0
  BY TextFacts
<1>2. Consumed(i, i) \in Seq(Lexicon) /\ Len(Consumed(i, i)) = 0
  BY <1>1, ConsumedFacts
<1> QED
  BY <1>2, EmptySeq

LEMMA ListReads ==
    ASSUME text \in Seq(Lexicon), NEW r, NEW S, NEW T \in TextsOf(S), ReadsOne(r, S, T)
    PROVE  ReadsMany(list(r), S, T)
<1> DEFINE N == Len(text) + 1
           L == list(r)
           Good(i) == \A m \in L[i] : /\ m.to \in Positions /\ i <= m.to /\ m.built \in Seq(S)
                                      /\ Consumed(i, m.to) = Written(m.built, T)
           D == {n \in Nat : \A i \in Positions : N - n < i => Good(i)}
<1>0. N \in Nat /\ Positions = 1..N
  BY TextFacts
<1>1. Ahead(r)
  BY DEF ReadsOne, Ahead
<1>2. \A i \in Positions : L[i] = ((r ++ L) | nothing)[i]
  BY <1>1, ListEquation
<1> HIDE DEF N, L
<1>3. 0 \in D
  BY <1>0
<1>4. ASSUME NEW n \in Nat, n \in D PROVE n + 1 \in D
  <2> SUFFICES ASSUME NEW i \in Positions, N - (n + 1) < i, NEW m \in L[i]
               PROVE  /\ m.to \in Positions /\ i <= m.to /\ m.built \in Seq(S)
                      /\ Consumed(i, m.to) = Written(m.built, T)
    OBVIOUS
  <2>1. CASE (r ++ L)[i] # {}
    <3>1. m \in (r ++ L)[i]
      BY <1>2, <2>1, Alternative
    <3>2. PICK a \in r[i] : \E b \in L[a.to] : m = Match(b.to, a.built \o b.built)
      BY <3>1, Row
    <3>3. PICK b \in L[a.to] : m = Match(b.to, a.built \o b.built)
      BY <3>2
    <3>4. a.to \in Positions /\ i < a.to
      BY DEF ReadsOne
    <3>5. PICK x \in S : a.built = <<x>> /\ Consumed(i, a.to) = T[x]
      BY DEF ReadsOne
    <3>6. N - n < a.to
      BY <1>0, <3>4
    <3>7. /\ b.to \in Positions /\ a.to <= b.to /\ b.built \in Seq(S)
          /\ Consumed(a.to, b.to) = Written(b.built, T)
      BY <1>4, <3>4, <3>6
    <3>8. m.to = b.to /\ m.built = <<x>> \o b.built
      BY <3>3, <3>5 DEF Match
    <3>9. i <= a.to /\ i <= b.to
      BY <1>0, <3>4, <3>7
    <3> DEFINE j == a.to   k == b.to   bs == b.built
    <3>10. Consumed(i, k) = Consumed(i, j) \o Consumed(j, k)
      <4>1. j \in Positions /\ k \in Positions /\ i <= j /\ j <= k
        BY <3>4, <3>7, <3>9
      <4> HIDE DEF j, k
      <4> QED
        BY <4>1, ConsumedSplit
    <3>11. Consumed(i, k) = T[x] \o Written(bs, T)
      BY <3>5, <3>7, <3>10
    <3>12. bs \in Seq(S)
      BY <3>7
    <3>13. m.to = k /\ m.built = <<x>> \o bs /\ k \in Positions /\ i <= k
      BY <3>7, <3>8, <3>9
    <3> HIDE DEF j, k, bs
    <3>14. <<x>> \o bs \in Seq(S) /\ Written(<<x>> \o bs, T) = T[x] \o Written(bs, T)
      BY <3>12, WrittenCons, ZenonT(30)
    <3> QED
      BY <3>11, <3>13, <3>14
  <2>2. CASE (r ++ L)[i] = {}
    <3>1. m \in nothing[i]
      BY <1>2, <2>2, Alternative
    <3>2. m.to = i /\ m.built = << >>
      BY <3>1 DEF nothing, Match
    <3> QED
      BY <1>0, <3>2, EmptyConsumed, WrittenOne, EmptySeq
  <2> QED
    BY <2>1, <2>2
<1>5. Nat \subseteq D
  <2> HIDE DEF D
  <2> QED
    BY <1>3, <1>4, InductiveSet
<1>6. \A i \in Positions : Good(i)
  <2>1. N \in D
    <3> HIDE DEF D
    <3> QED
      BY <1>0, <1>5
  <2>2. \A i \in Positions : N - N < i
    BY <1>0
  <2> QED
    BY <2>1, <2>2
<1> QED
  BY <1>6 DEF L, ReadsMany

----------------------------------------------------------------------------
(***************************************************************************)
(* What a rule reads: a set of pairs of what it builds and the lexemes it  *)
(* consumes for that.                                                      *)
(***************************************************************************)
ReadsFrom(r, P, k) ==
    \A i \in Positions : k <= i => \A m \in r[i] :
       m.to \in Positions /\ i <= m.to /\ <<m.built, Consumed(i, m.to)>> \in P

Reads(r, P) == ReadsFrom(r, P, 1)

Join(s, t) == s \o t
Then(P, Q) == {<<Join(p[1], q[1]), Join(p[2], q[2])>> : p \in P, q \in Q}
Whole(is, P) == {<<<<Node(is, p[1])>>, p[2]>> : p \in P}
OneOf(S, T) == {<<<<x>>, T[x]>> : x \in S}
ManyOf(S, T) == {<<xs, Written(xs, T)>> : xs \in Seq(S)}

LEMMA ThenPair ==
    ASSUME NEW P, NEW Q, NEW a, NEW b, NEW c, NEW d, <<a, b>> \in P, <<c, d>> \in Q
    PROVE  <<a \o c, b \o d>> \in Then(P, Q)
<1>0. a \o c = Join(a, c) /\ b \o d = Join(b, d)
  BY DEF Join
<1> DEFINE x == <<a, b>>   y == <<c, d>>   z == <<Join(a, c), Join(b, d)>>
<1>1. x \in P /\ y \in Q /\ z = <<Join(x[1], y[1]), Join(x[2], y[2])>>
  OBVIOUS
<1> HIDE DEF x, y, z
<1>2. z \in Then(P, Q)
  BY <1>1 DEF Then
<1> QED
  BY <1>0, <1>2 DEF z

LEMMA ThenParts ==
    ASSUME NEW P, NEW Q, NEW x \in Then(P, Q)
    PROVE  \E p \in P : \E q \in Q : x[1] = Join(p[1], q[1]) /\ x[2] = Join(p[2], q[2])
BY DEF Then

LEMMA ReadsEach ==
    ASSUME text \in Seq(Lexicon), NEW r, NEW P, Reads(r, P), NEW i \in Positions, NEW m \in r[i]
    PROVE  m.to \in Positions /\ i <= m.to /\ <<m.built, Consumed(i, m.to)>> \in P
<1>1. 1 <= i
  BY TextFacts
<1> QED
  BY <1>1 DEF Reads, ReadsFrom

LEMMA ReadsMore ==
    ASSUME NEW r, NEW P, NEW Q, NEW k, P \subseteq Q, ReadsFrom(r, P, k)
    PROVE  ReadsFrom(r, Q, k)
BY DEF ReadsFrom

LEMMA ReadsRow ==
    ASSUME text \in Seq(Lexicon), NEW r, NEW P, NEW s, NEW Q, NEW k \in Int, NEW h \in Int,
           ReadsFrom(r, P, k), ReadsFrom(s, Q, h),
           h = k \/ (h = k + 1 /\ \A p \in P : p[2] # << >>)
    PROVE  ReadsFrom(r ++ s, Then(P, Q), k)
<1> SUFFICES ASSUME NEW i \in Positions, k <= i, NEW m \in (r ++ s)[i]
             PROVE  /\ m.to \in Positions /\ i <= m.to
                    /\ <<m.built, Consumed(i, m.to)>> \in Then(P, Q)
  BY DEF ReadsFrom
<1>0. Positions \subseteq Int
  BY TextFacts
<1>1. PICK a \in r[i] : \E b \in s[a.to] : m = Match(b.to, a.built \o b.built)
  BY Row
<1>2. PICK b \in s[a.to] : m = Match(b.to, a.built \o b.built)
  BY <1>1
<1>3. a.to \in Positions /\ i <= a.to /\ <<a.built, Consumed(i, a.to)>> \in P
  BY DEF ReadsFrom
<1> DEFINE j == a.to
<1>4. h <= j
  <2>1. i \in Int /\ j \in Int /\ i <= j /\ k <= i
    BY <1>0, <1>3
  <2>2. h = k \/ (h = k + 1 /\ Consumed(i, j) # << >>)
    BY <1>3
  <2>3. j = i => Consumed(i, j) = << >>
    BY EmptyConsumed
  <2> HIDE DEF j
  <2> QED
    BY <2>1, <2>2, <2>3
<1>5. b.to \in Positions /\ a.to <= b.to /\ <<b.built, Consumed(a.to, b.to)>> \in Q
  BY <1>3, <1>4 DEF ReadsFrom
<1>6. m.to = b.to /\ m.built = a.built \o b.built
  BY <1>2 DEF Match
<1>7. i <= b.to
  BY <1>0, <1>3, <1>5
<1> DEFINE n == b.to
<1>8. Consumed(i, n) = Consumed(i, j) \o Consumed(j, n)
  <2>1. j \in Positions /\ n \in Positions /\ i <= j /\ j <= n
    BY <1>3, <1>5
  <2> HIDE DEF j, n
  <2> QED
    BY <2>1, ConsumedSplit
<1>9. <<a.built \o b.built, Consumed(i, j) \o Consumed(j, n)>> \in Then(P, Q)
  BY <1>3, <1>5, ThenPair
<1> QED
  BY <1>5, <1>6, <1>7, <1>8, <1>9

LEMMA ReadsEither ==
    ASSUME NEW r, NEW s, NEW P, NEW k, ReadsFrom(r, P, k), ReadsFrom(s, P, k)
    PROVE  ReadsFrom(r | s, P, k)
BY Alternative DEF ReadsFrom

LEMMA ReadsProduction ==
    ASSUME NEW is, NEW r, NEW P, NEW k, ReadsFrom(r, P, k)
    PROVE  ReadsFrom(match_production(is, r), Whole(is, P), k)
<1> SUFFICES ASSUME NEW i \in Positions, k <= i, NEW n \in match_production(is, r)[i]
             PROVE  /\ n.to \in Positions /\ i <= n.to
                    /\ <<n.built, Consumed(i, n.to)>> \in Whole(is, P)
  BY DEF ReadsFrom
<1>1. PICK m \in r[i] : n = Match(m.to, <<Node(is, m.built)>>)
  BY Production
<1>2. m.to \in Positions /\ i <= m.to /\ <<m.built, Consumed(i, m.to)>> \in P
  BY DEF ReadsFrom
<1>3. n.to = m.to /\ n.built = <<Node(is, m.built)>>
  BY <1>1 DEF Match
<1> DEFINE p == <<m.built, Consumed(i, m.to)>>
<1>4. p \in P /\ <<n.built, Consumed(i, n.to)>> = <<<<Node(is, p[1])>>, p[2]>>
  BY <1>2, <1>3
<1>5. <<n.built, Consumed(i, n.to)>> \in Whole(is, P)
  <2> HIDE DEF p
  <2> QED
    BY <1>4 DEF Whole
<1> QED
  BY <1>2, <1>3, <1>5

LEMMA ReadsNothing ==
    ASSUME text \in Seq(Lexicon)
    PROVE  Reads(nothing, {<<<< >>, << >>>>})
<1> SUFFICES ASSUME NEW i \in Positions, NEW m \in nothing[i]
             PROVE  m.to = i /\ m.built = << >> /\ i <= i /\ Consumed(i, i) = << >>
  BY DEF Reads, ReadsFrom
<1>1. m = Match(i, << >>)
  BY DEF nothing
<1> QED
  BY <1>1, TextFacts, EmptyConsumed DEF Match

LEMMA ReadsLexeme ==
    ASSUME text \in Seq(Lexicon), NEW lexeme, NEW built
    PROVE  Reads(MatchLexemes(<<lexeme>>, built), {<<built, <<lexeme>>>>})
<1> SUFFICES ASSUME NEW i \in Positions, NEW m \in MatchLexemes(<<lexeme>>, built)[i]
             PROVE  /\ m.to \in Positions /\ i <= m.to
                    /\ m.built = built /\ Consumed(i, m.to) = <<lexeme>>
  BY DEF Reads, ReadsFrom
<1>1. i <= Len(text) /\ text[i] = lexeme /\ m = Match(i + 1, built)
  <2>1. MatchLexemes(<<lexeme>>, built)[i] =
          IF i <= Len(text) /\ text[i] = lexeme THEN {Match(i + 1, built)} ELSE {}
    BY OneLexeme
  <2> QED
    BY <2>1
<1>2. i + 1 \in Positions /\ i <= i + 1
  BY <1>1, TextFacts
<1>3. Consumed(i, i + 1) = <<lexeme>>
  BY <1>1, ConsumedRun
<1> QED
  BY <1>1, <1>2, <1>3 DEF Match

LEMMA ReadsTwoLexemes ==
    ASSUME text \in Seq(Lexicon), NEW first, NEW second, NEW built
    PROVE  Reads(MatchLexemes(<<first, second>>, built), {<<built, <<first, second>>>>})
<1> SUFFICES ASSUME NEW i \in Positions, NEW m \in MatchLexemes(<<first, second>>, built)[i]
             PROVE  /\ m.to \in Positions /\ i <= m.to
                    /\ m.built = built /\ Consumed(i, m.to) = <<first, second>>
  BY DEF Reads, ReadsFrom
<1>1. /\ i + 1 <= Len(text) /\ text[i] = first /\ text[i + 1] = second
      /\ m = Match(i + 2, built)
  <2>1. MatchLexemes(<<first, second>>, built)[i] =
          IF i + 1 <= Len(text) /\ text[i] = first /\ text[i + 1] = second
          THEN {Match(i + 2, built)} ELSE {}
    BY TwoLexemes
  <2> QED
    BY <2>1
<1>2. i + 2 \in Positions /\ i <= i + 2
  BY <1>1, TextFacts
<1>3. Consumed(i, i + 2) = <<first, second>>
  BY <1>1, ConsumedRun
<1> QED
  BY <1>1, <1>2, <1>3 DEF Match

LEMMA ReadsAnyLexeme ==
    ASSUME text \in Seq(Lexicon), NEW lexemes, NEW is
    PROVE  Reads(MatchAny(lexemes, is), {<<<<Leaf(is, w)>>, <<w>>>> : w \in lexemes})
<1> SUFFICES ASSUME NEW i \in Positions, NEW m \in MatchAny(lexemes, is)[i]
             PROVE  /\ m.to \in Positions /\ i <= m.to
                    /\ \E w \in lexemes : m.built = <<Leaf(is, w)>> /\ Consumed(i, m.to) = <<w>>
  BY DEF Reads, ReadsFrom
<1>1. /\ i <= Len(text) /\ text[i] \in lexemes
      /\ m = Match(i + 1, <<Leaf(is, text[i])>>)
  <2>1. MatchAny(lexemes, is)[i] =
          IF i <= Len(text) /\ text[i] \in lexemes THEN {Match(i + 1, <<Leaf(is, text[i])>>)} ELSE {}
    BY AnyLexeme
  <2> QED
    BY <2>1
<1>2. i + 1 \in Positions /\ i <= i + 1
  BY <1>1, TextFacts
<1>3. Consumed(i, i + 1) = <<text[i]>>
  BY <1>1, ConsumedRun
<1> QED
  BY <1>1, <1>2, <1>3 DEF Match

LEMMA ReadsList ==
    ASSUME text \in Seq(Lexicon), NEW r, NEW S, NEW T \in TextsOf(S), Reads(r, OneOf(S, T)),
           \A x \in S : T[x] # << >>
    PROVE  Reads(list(r), ManyOf(S, T))
<1>1. ReadsOne(r, S, T)
  <2> SUFFICES ASSUME NEW i \in Positions, NEW m \in r[i]
               PROVE  /\ m.to \in Positions /\ i < m.to
                      /\ \E x \in S : m.built = <<x>> /\ Consumed(i, m.to) = T[x]
    BY DEF ReadsOne
  <2>1. m.to \in Positions /\ i <= m.to /\ <<m.built, Consumed(i, m.to)>> \in OneOf(S, T)
    BY ReadsEach
  <2>2. PICK x \in S : <<m.built, Consumed(i, m.to)>> = <<<<x>>, T[x]>>
    BY <2>1 DEF OneOf
  <2>3. m.built = <<x>> /\ Consumed(i, m.to) = T[x] /\ T[x] # << >>
    BY <2>2
  <2>4. i # m.to
    BY <2>3, EmptyConsumed
  <2> QED
    BY <2>1, <2>3, <2>4, TextFacts
<1>2. ReadsMany(list(r), S, T)
  BY <1>1, ListReads
<1> QED
  BY <1>2 DEF Reads, ReadsFrom, ReadsMany, ManyOf

----------------------------------------------------------------------------
(***************************************************************************)
(* Expressions.  Their rule contains itself, one lexeme ahead: its         *)
(* recursive definition has a solution too.                                *)
(***************************************************************************)
Forward(r) == \A i \in Positions : \A m \in r[i] : m.to \in Positions /\ i <= m.to

LEMMA ReadsForward ==
    ASSUME text \in Seq(Lexicon), NEW r, NEW P, Reads(r, P)
    PROVE  Forward(r) /\ ((\A p \in P : p[2] # << >>) => Ahead(r))
<1>1. Forward(r)
  BY ReadsEach DEF Forward
<1>2. ASSUME \A p \in P : p[2] # << >>, NEW i \in Positions, NEW m \in r[i]
      PROVE  i < m.to
  <2>1. m.to \in Positions /\ i <= m.to /\ <<m.built, Consumed(i, m.to)>> \in P
    BY ReadsEach
  <2>2. Consumed(i, m.to) # << >>
    BY <1>2, <2>1
  <2>3. i # m.to
    BY <2>2, EmptyConsumed
  <2> QED
    BY <2>1, <2>3, TextFacts
<1> QED
  BY <1>1, <1>2 DEF Forward, Ahead

LEMMA RowForward ==
    ASSUME text \in Seq(Lexicon), NEW r, NEW s, Forward(s)
    PROVE  (Forward(r) => Forward(r ++ s)) /\ (Ahead(r) => Ahead(r ++ s))
<1> SUFFICES ASSUME NEW i \in Positions, NEW m \in (r ++ s)[i], Forward(r) \/ Ahead(r)
             PROVE  /\ m.to \in Positions /\ i <= m.to
                    /\ Ahead(r) => i < m.to
  BY DEF Forward, Ahead
<1>1. PICK a \in r[i] : \E b \in s[a.to] : m = Match(b.to, a.built \o b.built)
  BY Row
<1>2. PICK b \in s[a.to] : m = Match(b.to, a.built \o b.built)
  BY <1>1
<1>3. a.to \in Positions /\ i <= a.to /\ (Ahead(r) => i < a.to)
  BY TextFacts DEF Forward, Ahead
<1>4. b.to \in Positions /\ a.to <= b.to /\ m.to = b.to
  BY <1>2, <1>3 DEF Forward, Match
<1> QED
  BY <1>3, <1>4, TextFacts

LEMMA EitherForward ==
    ASSUME NEW r, NEW s
    PROVE  /\ Forward(r) /\ Forward(s) => Forward(r | s)
           /\ Ahead(r) /\ Ahead(s) => Ahead(r | s)
BY Alternative DEF Forward, Ahead

LEMMA ProductionForward ==
    ASSUME NEW is, NEW r
    PROVE  /\ Forward(r) => Forward(match_production(is, r))
           /\ Ahead(r) => Ahead(match_production(is, r))
<1>1. \A i \in Positions : \A n \in match_production(is, r)[i] : \E m \in r[i] : n.to = m.to
  BY Production DEF Match
<1> QED
  BY <1>1 DEF Forward, Ahead

LEMMA OneIsSome == \A x : <<x>> # << >>
<1> SUFFICES ASSUME NEW x PROVE Len(<<x>>) # Len(<< >>)
  OBVIOUS
<1> QED
  OBVIOUS

LEMMA LexemesForward ==
    ASSUME text \in Seq(Lexicon)
    PROVE  /\ \A lexeme, built : Ahead(MatchLexemes(<<lexeme>>, built)) /\ Forward(MatchLexemes(<<lexeme>>, built))
           /\ \A lexemes, is : Ahead(MatchAny(lexemes, is)) /\ Forward(MatchAny(lexemes, is))
<1>1. ASSUME NEW lexeme, NEW built
      PROVE  Ahead(MatchLexemes(<<lexeme>>, built)) /\ Forward(MatchLexemes(<<lexeme>>, built))
  <2> DEFINE P == {<<built, <<lexeme>>>>}
  <2>1. \A p \in P : p[2] # << >>
    <3> TAKE p \in P
    <3>1. p[2] = <<lexeme>>
      OBVIOUS
    <3> QED
      BY <3>1, OneIsSome
  <2>2. Reads(MatchLexemes(<<lexeme>>, built), P)
    BY ReadsLexeme
  <2> HIDE DEF P
  <2> QED
    BY <2>1, <2>2, ReadsForward
<1>2. ASSUME NEW lexemes, NEW is
      PROVE  Ahead(MatchAny(lexemes, is)) /\ Forward(MatchAny(lexemes, is))
  <2> DEFINE P == {<<<<Leaf(is, w)>>, <<w>>>> : w \in lexemes}
  <2>1. \A p \in P : p[2] # << >>
    <3> TAKE p \in P
    <3>1. \E w : p[2] = <<w>>
      OBVIOUS
    <3> QED
      BY <3>1, OneIsSome
  <2>2. Reads(MatchAny(lexemes, is), P)
    BY ReadsAnyLexeme
  <2> HIDE DEF P
  <2> QED
    BY <2>1, <2>2, ReadsForward
<1> QED
  BY <1>1, <1>2

item(e) == base_grammar(e) | level_1_grammar | level_2_grammar

LEMMA ItemAhead ==
    ASSUME text \in Seq(Lexicon), NEW e, Forward(e)
    PROVE  Ahead(item(e))
<1>1. Ahead(match_number) /\ Ahead(match_identifier) /\ Forward(match_identifier)
  BY LexemesForward DEF match_number, match_identifier
<1>2. Ahead(bool_literal_grammar)
  BY LexemesForward, EitherForward DEF bool_literal_grammar, match_operand
<1>3. Ahead(strict_member_accessor_grammar)
  <2>1. Forward(match_string(<<".">>))
    BY LexemesForward DEF match_string
  <2>2. Ahead(match_identifier ++ match_string(<<".">>))
    BY <1>1, <2>1, RowForward
  <2> DEFINE r == match_identifier ++ match_string(<<".">>)
  <2>3. Ahead(r ++ match_identifier)
    <3> HIDE DEF r
    <3> QED
      BY <1>1, <2>2, RowForward DEF r
  <2> QED
    BY <2>3, ProductionForward DEF strict_member_accessor_grammar
<1>4. Ahead(level_1_grammar) /\ Ahead(level_2_grammar)
  BY LexemesForward, EitherForward DEF level_1_grammar, level_2_grammar, expression_operand, match_operand
<1>5. Ahead(parenthesised(operand(e)))
  <2>1. Forward(operand(e))
    <3>1. \A i \in Positions : \A n \in operand(e)[i] : \E m \in e[i] : n.to = m.to
      BY DEF operand, Match
    <3> QED
      BY <3>1 DEF Forward
  <2>2. Ahead(match_string(<<"(">>)) /\ Forward(match_string(<<")">>))
    BY LexemesForward DEF match_string
  <2> DEFINE o == operand(e)   r == match_string(<<"(">>)   s == match_string(<<")">>)   t == r ++ o
  <2>3. parenthesised(operand(e)) = t ++ s
    BY DEF parenthesised
  <2> HIDE DEF o, r, s
  <2>4. Ahead(t)
    BY <2>1, <2>2, RowForward DEF o, r
  <2> HIDE DEF t
  <2>5. Ahead(t ++ s)
    BY <2>2, <2>4, RowForward DEF s
  <2> QED
    BY <2>3, <2>5
<1> DEFINE b == bool_literal_grammar   n == match_number   i == match_identifier
           a == strict_member_accessor_grammar   p == parenthesised(operand(e))
<1>6. Ahead(base_grammar(e))
  <2>1. base_grammar(e) = (n | b | a | i | p)
    BY DEF base_grammar
  <2>2. Ahead(n) /\ Ahead(b) /\ Ahead(a) /\ Ahead(i) /\ Ahead(p)
    BY <1>1, <1>2, <1>3, <1>5
  <2> HIDE DEF n, b, a, i, p
  <2> QED
    BY <2>1, <2>2, EitherForward
<1> QED
  BY <1>4, <1>6, EitherForward DEF item

LEMMA ItemLocal ==
    ASSUME text \in Seq(Lexicon), NEW e, NEW f, NEW i \in Positions,
           \A k \in Positions : i < k => e[k] = f[k]
    PROVE  item(e)[i] = item(f)[i]
<1> DEFINE r == match_string(<<"(">>)   s == match_string(<<")">>)
           re == r ++ operand(e)   rf == r ++ operand(f)
<1>1. re[i] = rf[i]
  <2>1. \A m \in r[i] : m.to \in Positions /\ i < m.to
    BY LexemesForward DEF match_string, Ahead
  <2>2. \A m \in r[i] : operand(e)[m.to] = operand(f)[m.to]
    BY <2>1 DEF operand
  <2> HIDE DEF r
  <2> QED
    BY <2>2, RowLocal
<1>2. (re ++ s)[i] = (rf ++ s)[i]
  <2> HIDE DEF re, rf, s
  <2> QED
    BY <1>1, RowLocal
<1>3. parenthesised(operand(e))[i] = parenthesised(operand(f))[i]
  BY <1>2 DEF parenthesised
<1> DEFINE others == match_number | bool_literal_grammar | strict_member_accessor_grammar | match_identifier
           p == parenthesised(operand(e))   q == parenthesised(operand(f))
<1>4. base_grammar(e) = (others | p) /\ base_grammar(f) = (others | q)
  BY DEF base_grammar
<1>5. base_grammar(e)[i] = base_grammar(f)[i]
  <2>1. p[i] = q[i]
    BY <1>3
  <2> HIDE DEF others, p, q
  <2> QED
    BY <1>4, <2>1, Alternative
<1> QED
  BY <1>5, Alternative DEF item

IsExpressionRules(e) == e = [i \in Positions |-> ((item(e) ++ e) | nothing)[i]]

LEMMA ExpressionRulesExist ==
    ASSUME text \in Seq(Lexicon)
    PROVE  IsExpressionRules(expression_rules)
<1> DEFINE N == Len(text) + 1
           Solves(e, n) == /\ e = [i \in Positions |-> e[i]] /\ Forward(e)
                           /\ \A i \in Positions :
                                 N - n < i => e[i] = ((item(e) ++ e) | nothing)[i]
           S == {n \in Nat : \E e : Solves(e, n)}
<1>0. N \in Nat /\ Positions = 1..N
  BY TextFacts
<1>1. Forward(nothing)
  BY ReadsNothing, ReadsForward
<1> HIDE DEF N
<1>2. 0 \in S
  <2> DEFINE e == [i \in Positions |-> {}]
  <2>1. e = [i \in Positions |-> e[i]] /\ Forward(e)
    BY DEF Forward
  <2>2. \A i \in Positions : ~(N - 0 < i)
    BY <1>0
  <2>3. Solves(e, 0)
    BY <2>1, <2>2
  <2> QED
    BY <2>3
<1>3. ASSUME NEW e, Forward(e)
      PROVE  Ahead(item(e)) /\ Forward((item(e) ++ e) | nothing)
  <2>1. Ahead(item(e))
    BY <1>3, ItemAhead
  <2> DEFINE t == item(e)
  <2> HIDE DEF t
  <2>2. Forward(t)
    BY <2>1, TextFacts DEF t, Forward, Ahead
  <2>3. Forward(t ++ e)
    BY <1>3, <2>2, RowForward
  <2> DEFINE u == t ++ e
  <2> HIDE DEF u
  <2>4. Forward(u | nothing)
    BY <1>1, <2>3, EitherForward DEF u
  <2> QED
    BY <2>1, <2>4 DEF t, u
<1>4. ASSUME NEW n \in Nat, n \in S PROVE n + 1 \in S
  <2>1. PICK e : Solves(e, n)
    BY <1>4
  <2> DEFINE k == N - n
             turn == (item(e) ++ e) | nothing
             f == [i \in Positions |-> IF i = k THEN turn[i] ELSE e[i]]
  <2>2. k \in Int /\ k = N - n
    BY <1>0
  <2>3. f = [i \in Positions |-> f[i]] /\ \A i \in Positions : f[i] = IF i = k THEN turn[i] ELSE e[i]
    OBVIOUS
  <2>4. Forward(turn)
    BY <1>3, <2>1
  <2>5. turn = ((item(e) ++ e) | nothing)
    OBVIOUS
  <2> HIDE DEF f, k, turn
  <2>6. Forward(f)
    BY <2>1, <2>3, <2>4 DEF Forward
  <2>7. \A i \in Positions : k <= i => ((item(f) ++ f) | nothing)[i] = turn[i]
    <3> TAKE i \in Positions
    <3> HAVE k <= i
    <3>1. \A j \in Positions : i < j => f[j] = e[j]
      BY <1>0, <2>2, <2>3
    <3>2. item(f)[i] = item(e)[i]
      BY <3>1, ItemLocal
    <3>3. \A m \in item(f)[i] : f[m.to] = e[m.to]
      BY <1>3, <2>6, <3>1 DEF Ahead
    <3> DEFINE g == item(f)   h == item(e)
    <3>4. g[i] = h[i] /\ (\A m \in g[i] : f[m.to] = e[m.to])
      BY <3>2, <3>3
    <3> HIDE DEF g, h
    <3>5. (g ++ f)[i] = (h ++ e)[i]
      BY <3>4, RowLocal
    <3> QED
      BY <2>5, <3>5, Alternative DEF g, h
  <2>8. \A i \in Positions : N - (n + 1) < i => f[i] = ((item(f) ++ f) | nothing)[i]
    <3> TAKE i \in Positions
    <3> HAVE N - (n + 1) < i
    <3>1. k <= i
      BY <1>0, <2>2
    <3>2. CASE i = k
      BY <2>3, <2>7, <3>1, <3>2
    <3>3. CASE i # k
      <4>1. N - n < i
        BY <1>0, <2>2, <3>1, <3>3
      <4>2. e[i] = turn[i]
        BY <2>1, <2>5, <4>1
      <4> QED
        BY <2>3, <2>7, <3>1, <3>3, <4>2
    <3> QED
      BY <3>2, <3>3
  <2>9. Solves(f, n + 1)
    BY <2>3, <2>6, <2>8
  <2>10. n + 1 \in Nat
    OBVIOUS
  <2> QED
    BY <2>9, <2>10
<1>5. Nat \subseteq S
  <2> HIDE DEF S
  <2> QED
    BY <1>2, <1>4, InductiveSet
<1>6. PICK e : Solves(e, N)
  BY <1>0, <1>5
<1>7. IsExpressionRules(e)
  <2>1. \A i \in Positions : N - N < i
    BY <1>0
  <2> QED
    BY <1>6, <2>1 DEF IsExpressionRules
<1>8. expression_rules = CHOOSE f : IsExpressionRules(f)
  BY DEF expression_rules, IsExpressionRules, item
<1> QED
  BY <1>7, <1>8

LEMMA ExpressionEquation ==
    ASSUME text \in Seq(Lexicon), NEW i \in Positions
    PROVE  expression_rules[i] = ((item(expression_rules) ++ expression_rules) | nothing)[i]
<1> DEFINE e == expression_rules
<1>1. e = [k \in Positions |-> ((item(e) ++ e) | nothing)[k]]
  BY ExpressionRulesExist DEF IsExpressionRules
<1> HIDE DEF e
<1>2. e[i] = ((item(e) ++ e) | nothing)[i]
  BY <1>1
<1> QED
  BY <1>2 DEF e

----------------------------------------------------------------------------
(***************************************************************************)
(* Balanced parentheses.                                                   *)
(***************************************************************************)
LEMMA CountFacts ==
    ASSUME NEW x, NEW s, NEW k \in Nat
    PROVE  /\ Count(x, s, k) \in Nat /\ Count(x, s, 0) = 0
           /\ Count(x, s, k + 1) = Count(x, s, k) + (IF s[k + 1] = x THEN 1 ELSE 0)
<1> DEFINE At(n) == {j \in 1..n : s[j] = x}
<1>1. IsFiniteSet(At(k)) /\ Cardinality(At(k)) \in Nat
  <2>1. IsFiniteSet(1..k)
    BY FS_Interval
  <2> QED
    BY <2>1, FS_Subset, FS_CardinalityType
<1>2. At(0) = {} /\ Cardinality(At(0)) = 0
  BY FS_EmptySet
<1>3. Cardinality(At(k + 1)) = Cardinality(At(k)) + (IF s[k + 1] = x THEN 1 ELSE 0)
  <2>1. CASE s[k + 1] = x
    <3>1. At(k + 1) = At(k) \cup {k + 1} /\ k + 1 \notin At(k)
      BY <2>1
    <3> HIDE DEF At
    <3>2. Cardinality(At(k) \cup {k + 1}) = Cardinality(At(k)) + 1
      BY <1>1, <3>1, FS_AddElement
    <3> QED
      BY <2>1, <3>1, <3>2
  <2>2. CASE s[k + 1] # x
    <3>1. At(k + 1) = At(k)
      BY <2>2
    <3> QED
      BY <1>1, <2>2, <3>1
  <2> QED
    BY <2>1, <2>2
<1> QED
  BY <1>1, <1>2, <1>3 DEF Count

LEMMA CountPrefix ==
    ASSUME NEW x, NEW s, NEW t, NEW k \in Nat, \A j \in 1..k : s[j] = t[j]
    PROVE  Count(x, s, k) = Count(x, t, k)
<1>1. {j \in 1..k : s[j] = x} = {j \in 1..k : t[j] = x}
  OBVIOUS
<1> QED
  BY <1>1 DEF Count

\* The first elements of u are the n of s and then the m of t.
Joined(u, s, n, t, m) == (\A j \in 1..n : u[j] = s[j]) /\ (\A j \in 1..m : u[n + j] = t[j])

LEMMA CountLeft ==
    ASSUME NEW x, NEW s, NEW t, NEW u, NEW n \in Nat, NEW m, Joined(u, s, n, t, m), NEW k \in 0..n
    PROVE  Count(x, u, k) = Count(x, s, k)
<1>1. k \in Nat /\ \A j \in 1..k : u[j] = s[j]
  BY DEF Joined
<1> QED
  BY <1>1, CountPrefix

LEMMA CountConcat ==
    ASSUME NEW x, NEW s, NEW t, NEW u, NEW n \in Nat, NEW m \in Nat, Joined(u, s, n, t, m)
    PROVE  \A k \in 0..m : Count(x, u, n + k) = Count(x, s, n) + Count(x, t, k)
<1> USE DEF Joined
<1>1. Count(x, u, n) = Count(x, s, n)
  BY CountPrefix
<1> DEFINE S == {k \in Nat : k <= m => Count(x, u, n + k) = Count(x, s, n) + Count(x, t, k)}
<1>2. 0 \in S
  <2>1. Count(x, u, n + 0) = Count(x, s, n) /\ Count(x, t, 0) = 0 /\ Count(x, s, n) \in Nat
    BY <1>1, CountFacts
  <2> QED
    BY <2>1
<1>3. ASSUME NEW k \in Nat, k \in S PROVE k + 1 \in S
  <2> SUFFICES ASSUME k + 1 <= m
               PROVE  Count(x, u, n + (k + 1)) = Count(x, s, n) + Count(x, t, k + 1)
    OBVIOUS
  <2>1. Count(x, u, n + k) = Count(x, s, n) + Count(x, t, k)
    BY <1>3
  <2>2. n + k \in Nat /\ n + (k + 1) = (n + k) + 1 /\ u[(n + k) + 1] = t[k + 1]
    <3>1. n + (k + 1) = (n + k) + 1 /\ k + 1 \in 1..m
      OBVIOUS
    <3> QED
      BY <3>1
  <2> DEFINE h == n + k
  <2>3. Count(x, u, h + 1) = Count(x, u, h) + (IF u[h + 1] = x THEN 1 ELSE 0)
    <3> HIDE DEF h
    <3> QED
      BY <2>2, CountFacts DEF h
  <2>4. Count(x, t, k + 1) = Count(x, t, k) + (IF t[k + 1] = x THEN 1 ELSE 0)
    BY CountFacts
  <2>5. Count(x, s, n) \in Nat /\ Count(x, t, k) \in Nat
    BY CountFacts
  <2> QED
    BY <2>1, <2>2, <2>3, <2>4, <2>5
<1>4. Nat \subseteq S
  <2> HIDE DEF S
  <2> QED
    BY <1>2, <1>3, InductiveSet
<1> QED
  BY <1>1, <1>4

LEMMA CountOne ==
    ASSUME NEW x, NEW y
    PROVE  Count(x, <<y>>, 1) = IF y = x THEN 1 ELSE 0
<1> DEFINE s == <<y>>
<1>1. s[0 + 1] = y /\ 0 + 1 = 1
  OBVIOUS
<1> HIDE DEF s
<1>2. Count(x, s, 0 + 1) = Count(x, s, 0) + (IF s[0 + 1] = x THEN 1 ELSE 0) /\ Count(x, s, 0) = 0
  BY CountFacts
<1>3. Count(x, s, 1) = IF y = x THEN 1 ELSE 0
  BY <1>1, <1>2
<1> QED
  BY <1>3 DEF s

LEMMA JoinedConcat ==
    ASSUME NEW S, NEW s \in Seq(S), NEW t \in Seq(S)
    PROVE  /\ s \o t \in Seq(S) /\ Len(s) \in Nat /\ Len(t) \in Nat
           /\ Len(s \o t) = Len(s) + Len(t) /\ DOMAIN (s \o t) = 1..(Len(s) + Len(t))
           /\ Joined(s \o t, s, Len(s), t, Len(t))
<1> DEFINE u == s \o t   n == Len(s)   m == Len(t)
<1>1. n \in Nat /\ m \in Nat
  BY LenProperties
<1>2. /\ u \in Seq(S) /\ Len(u) = n + m
      /\ \A j \in 1..(n + m) : u[j] = IF j <= n THEN s[j] ELSE t[j - n]
  BY ConcatProperties
<1>3. DOMAIN u = 1..(n + m)
  BY <1>2, LenProperties
<1> HIDE DEF u, n, m
<1>4. Joined(u, s, n, t, m)
  <2>1. \A j \in 1..n : u[j] = s[j]
    BY <1>1, <1>2
  <2>2. \A j \in 1..m : u[n + j] = t[j]
    <3> TAKE j \in 1..m
    <3>1. n + j \in 1..(n + m) /\ ~(n + j <= n) /\ (n + j) - n = j
      BY <1>1
    <3> QED
      BY <1>2, <3>1
  <2> QED
    BY <2>1, <2>2 DEF Joined
<1> QED
  BY <1>1, <1>2, <1>3, <1>4 DEF u, n, m

LEMMA BalancedNone == Balanced(<< >>)
<1>1. Count(Open, << >>, 0) = 0 /\ Count(Close, << >>, 0) = 0
  BY CountFacts
<1>2. Len(<< >>) = 0 /\ DOMAIN << >> = {}
  OBVIOUS
<1> QED
  BY <1>1, <1>2 DEF Balanced

LEMMA BalancedOne ==
    ASSUME NEW x, x # Open, x # Close
    PROVE  Balanced(<<x>>)
<1> DEFINE s == <<x>>
<1>1. s[1] = x /\ Len(s) = 1 /\ DOMAIN s = {1}
  OBVIOUS
<1> HIDE DEF s
<1>2. \A y \in {Open, Close} : Count(y, s, 1) = 0
  BY CountOne DEF s
<1>3. Balanced(s)
  BY <1>1, <1>2 DEF Balanced
<1> QED
  BY <1>3 DEF s

LEMMA BalancedBoth ==
    ASSUME NEW S, NEW s \in Seq(S), NEW t \in Seq(S), Balanced(s), Balanced(t)
    PROVE  Balanced(s \o t)
<1> DEFINE u == s \o t   n == Len(s)   m == Len(t)
<1>1. n \in Nat /\ m \in Nat /\ DOMAIN s = 1..n /\ DOMAIN t = 1..m
  BY LenProperties
<1>4. /\ \A k \in 1..n : Count(Close, s, k) <= Count(Open, s, k)
      /\ Count(Close, s, n) = Count(Open, s, n)
      /\ \A k \in 1..m : Count(Close, t, k) <= Count(Open, t, k)
      /\ Count(Close, t, m) = Count(Open, t, m)
  BY <1>1 DEF Balanced
<1>5. Len(u) = n + m /\ DOMAIN u = 1..(n + m) /\ Joined(u, s, n, t, m)
  BY JoinedConcat
<1> HIDE DEF u, n, m
<1>6. \A x : \A k \in 0..n : Count(x, u, k) = Count(x, s, k)
  BY <1>1, <1>5, CountLeft
<1>7. \A x : \A k \in 0..m : Count(x, u, n + k) = Count(x, s, n) + Count(x, t, k)
  BY <1>1, <1>5, CountConcat
<1>8. \A x : \A k \in Nat : Count(x, s, k) \in Nat /\ Count(x, t, k) \in Nat
  BY CountFacts
<1>9. \A k \in 1..(n + m) : Count(Close, u, k) <= Count(Open, u, k)
  <2> TAKE k \in 1..(n + m)
  <2>1. CASE k <= n
    <3>1. k \in 0..n /\ k \in 1..n
      BY <1>1, <2>1
    <3> QED
      BY <1>4, <1>6, <3>1
  <2>2. CASE ~(k <= n)
    <3> DEFINE j == k - n
    <3>1. j \in 0..m /\ j \in 1..m /\ k = n + j /\ j \in Nat
      BY <1>1, <2>2
    <3> HIDE DEF j
    <3>2. Count(Close, t, j) <= Count(Open, t, j)
      BY <1>4, <3>1
    <3>3. /\ Count(Close, u, n + j) = Count(Close, s, n) + Count(Close, t, j)
          /\ Count(Open, u, n + j) = Count(Open, s, n) + Count(Open, t, j)
      BY <1>7, <3>1
    <3> QED
      BY <1>1, <1>4, <1>8, <3>1, <3>2, <3>3, SMTT(30)
  <2> QED
    BY <2>1, <2>2
<1>10. Count(Close, u, n + m) = Count(Open, u, n + m)
  <2>1. m \in 0..m
    BY <1>1
  <2>2. /\ Count(Close, u, n + m) = Count(Close, s, n) + Count(Close, t, m)
        /\ Count(Open, u, n + m) = Count(Open, s, n) + Count(Open, t, m)
    BY <1>7, <2>1
  <2> QED
    BY <1>4, <2>2
<1>11. Balanced(u)
  BY <1>5, <1>9, <1>10 DEF Balanced
<1> QED
  BY <1>11 DEF u

LEMMA BalancedNested ==
    ASSUME NEW S, NEW s \in Seq(S), Open \in S, Close \in S, Balanced(s)
    PROVE  Balanced(<<Open>> \o s \o <<Close>>)
<1> DEFINE o == <<Open>>   c == <<Close>>   v == o \o s   u == v \o c   n == Len(s)
<1>1. Open # Close
  BY DEF Open, Close, Leaf
<1>2. o \in Seq(S) /\ c \in Seq(S) /\ Len(o) = 1 /\ Len(c) = 1
  OBVIOUS
<1>3. n \in Nat /\ DOMAIN s = 1..n
  BY LenProperties
<1>4. /\ \A k \in 1..n : Count(Close, s, k) <= Count(Open, s, k)
      /\ Count(Close, s, n) = Count(Open, s, n)
  BY <1>3 DEF Balanced
<1>5. /\ Count(Open, o, 1) = 1 /\ Count(Close, o, 1) = 0
      /\ Count(Open, c, 1) = 0 /\ Count(Close, c, 1) = 1
  BY <1>1, CountOne
<1> HIDE DEF o, c
<1>6. v \in Seq(S) /\ Len(v) = 1 + n /\ Joined(v, o, 1, s, n)
  BY <1>2, JoinedConcat
<1> HIDE DEF v
<1>7. Len(u) = (1 + n) + 1 /\ DOMAIN u = 1..((1 + n) + 1) /\ Joined(u, v, 1 + n, c, 1)
  <2>1. v \in Seq(S) /\ c \in Seq(S) /\ Len(v) = 1 + n /\ Len(c) = 1
    BY <1>2, <1>6
  <2>2. /\ Len(v \o c) = Len(v) + Len(c) /\ DOMAIN (v \o c) = 1..(Len(v) + Len(c))
        /\ Joined(v \o c, v, Len(v), c, Len(c))
    BY ONLY <2>1, JoinedConcat
  <2> QED
    BY <2>1, <2>2
<1> HIDE DEF u, n
<1>8. \A x : \A k \in 0..n : Count(x, v, 1 + k) = Count(x, o, 1) + Count(x, s, k)
  BY <1>3, <1>6, CountConcat
<1> DEFINE h == 1 + n
<1>9. \A x : /\ \A k \in 0..h : Count(x, u, k) = Count(x, v, k)
             /\ Count(x, u, h + 1) = Count(x, v, h) + Count(x, c, 1)
  <2>1. h \in Nat /\ Joined(u, v, h, c, 1) /\ 1 \in Nat /\ 1 \in 0..1
    BY <1>3, <1>7
  <2> HIDE DEF h
  <2>2. \A x : \A k \in 0..h : Count(x, u, k) = Count(x, v, k)
    BY <2>1, CountLeft
  <2>3. \A x : \A k \in 0..1 : Count(x, u, h + k) = Count(x, v, h) + Count(x, c, k)
    BY <2>1, CountConcat
  <2> QED
    BY <2>1, <2>2, <2>3
<1>10. \A x : \A k \in Nat : Count(x, s, k) \in Nat /\ Count(x, s, 0) = 0
  BY CountFacts
<1>11. \A k \in 0..n : Count(Close, u, 1 + k) = Count(Close, s, k) /\ Count(Open, u, 1 + k) = 1 + Count(Open, s, k)
  <2> TAKE k \in 0..n
  <2>1. 1 + k \in 0..(1 + n) /\ k \in Nat
    BY <1>3
  <2> QED
    BY <1>5, <1>8, <1>9, <1>10, <2>1
<1>12. \A k \in 1..((1 + n) + 1) : Count(Close, u, k) <= Count(Open, u, k)
  <2> TAKE k \in 1..((1 + n) + 1)
  <2>1. CASE k = (1 + n) + 1
    <3>1. n \in 0..n /\ n \in Nat
      BY <1>3
    <3> QED
      BY <1>4, <1>5, <1>8, <1>9, <1>10, <2>1, <3>1
  <2>2. CASE k # (1 + n) + 1
    <3> DEFINE j == k - 1
    <3>1. j \in 0..n /\ k = 1 + j /\ j \in Nat
      BY <1>3, <2>2
    <3> HIDE DEF j
    <3>2. Count(Close, s, j) <= Count(Open, s, j)
      <4>1. CASE j = 0
        BY <1>10, <4>1
      <4>2. CASE j # 0
        <5>1. j \in 1..n
          BY <1>3, <3>1, <4>2
        <5> QED
          BY <1>4, <5>1
      <4> QED
        BY <4>1, <4>2
    <3> QED
      BY <1>10, <1>11, <3>1, <3>2
  <2> QED
    BY <2>1, <2>2
<1>13. Count(Close, u, (1 + n) + 1) = Count(Open, u, (1 + n) + 1)
  <2>1. n \in 0..n /\ n \in Nat
    BY <1>3
  <2> QED
    BY <1>4, <1>5, <1>8, <1>9, <1>10, <2>1
<1>14. Balanced(u)
  BY <1>7, <1>12, <1>13 DEF Balanced
<1> QED
  BY <1>14 DEF u, v, o, c

----------------------------------------------------------------------------
(***************************************************************************)
(* The trees and their texts.                                              *)
(***************************************************************************)
LEMMA Shapes ==
    /\ \A is, lexeme : Leaf(is, lexeme).is = is /\ Leaf(is, lexeme).lexeme = lexeme
    /\ \A is, parts : Node(is, parts).is = is /\ Node(is, parts).parts = parts
BY DEF Leaf, Node

LEMMA InNodes ==
    ASSUME NEW is, NEW S
    PROVE  /\ \A parts \in S : Node(is, parts) \in Nodes(is, S)
           /\ \A x \in Nodes(is, S) : x.parts \in S /\ x = Node(is, x.parts) /\ x.is = is
<1>1. \A parts \in S : Node(is, parts) \in Nodes(is, S)
  BY DEF Node, Nodes
<1>2. ASSUME NEW x \in Nodes(is, S)
      PROVE  x.parts \in S /\ x = Node(is, x.parts) /\ x.is = is
  <2>1. x = [is |-> x.is, lexeme |-> x.lexeme, parts |-> x.parts]
    BY DEF Nodes
  <2>2. x.is = is /\ x.lexeme = "" /\ x.parts \in S
    BY DEF Nodes
  <2>3. Node(is, x.parts) = [is |-> is, lexeme |-> "", parts |-> x.parts]
    BY DEF Node
  <2> QED
    BY <2>1, <2>2, <2>3
<1> QED
  BY <1>1, <1>2

LEMMA SymbolsInLexicon ==
    /\ \A s \in {".", "=", "{", "}", ";", "(", ")", "pre", "post", "capability", "has", "can", "actor",
                 "true", "false"} :
          s \in Lexicon /\ <<s>> \in Seq(Lexicon)
    /\ \A w \in Words \cup Numerals : w \in Lexicon /\ <<w>> \in Seq(Lexicon)
    /\ Symbols["ADD"] = <<"+">> /\ Symbols["SUBTRACT"] = <<"-">>
    /\ Symbols["MULTIPLY"] = <<"*">> /\ Symbols["DIVIDE"] = <<"/">>
    /\ Symbols["EQUAL"] = <<"=", "=">> /\ Symbols["DIFFERENT"] = <<"!", "=">>
    /\ Symbols["GREATER"] = <<">">> /\ Symbols["GREATER_EQUAL"] = <<">", "=">>
    /\ Symbols["LESS"] = <<"<">> /\ Symbols["LESS_EQUAL"] = <<"<", "=">>
    /\ \A op \in {"ADD", "SUBTRACT", "MULTIPLY", "DIVIDE", "EQUAL", "DIFFERENT", "GREATER",
                  "GREATER_EQUAL", "LESS", "LESS_EQUAL"} : Symbols[op] \in Seq(Lexicon)
<1>1. \A s \in {".", "=", "{", "}", ";", "(", ")", "pre", "post", "capability", "has", "can", "actor",
                "true", "false"} : s \in Lexicon
  BY KeywordsAreWords DEF Keywords, Lexicon, Literals, Marks
<1>2. \A w \in Words \cup Numerals : w \in Lexicon
  BY DEF Lexicon, Literals, Marks
<1>3. \A w \in Lexicon : <<w>> \in Seq(Lexicon)
  OBVIOUS
<1>4. /\ Symbols["ADD"] = <<"+">> /\ Symbols["SUBTRACT"] = <<"-">>
      /\ Symbols["MULTIPLY"] = <<"*">> /\ Symbols["DIVIDE"] = <<"/">>
      /\ Symbols["EQUAL"] = <<"=", "=">> /\ Symbols["DIFFERENT"] = <<"!", "=">>
      /\ Symbols["GREATER"] = <<">">> /\ Symbols["GREATER_EQUAL"] = <<">", "=">>
      /\ Symbols["LESS"] = <<"<">> /\ Symbols["LESS_EQUAL"] = <<"<", "=">>
  BY DEF Symbols
<1>5. /\ "+" \in Lexicon /\ "-" \in Lexicon /\ "*" \in Lexicon /\ "/" \in Lexicon
      /\ "=" \in Lexicon /\ "!" \in Lexicon /\ ">" \in Lexicon /\ "<" \in Lexicon
  BY DEF Lexicon, Literals, Marks
<1>6. \A v, w \in Lexicon : <<v, w>> \in Seq(Lexicon)
  OBVIOUS
<1> QED
  BY <1>1, <1>2, <1>3, <1>4, <1>5, <1>6, ZenonT(30)

AccessorTexts == [a \in Accessors |-> AccessorText(a)]
ItemTexts == [x \in Items |-> ItemText(x)]
PreconditionTexts == [p \in Preconditions |-> PreconditionText(p)]
AssignmentTexts == [a \in Assignments |-> AssignmentText(a)]
StatementTexts == [s \in Statements |-> StatementText(s)]

AccessorOf(v, w) == Node("accessor", <<Leaf("identifier", v), Leaf("identifier", w)>>)

LEMMA AccessorShape ==
    /\ \A v \in Words :
          LET a == Node("accessor", <<Leaf("identifier", v)>>)
          IN  a \in Accessors /\ AccessorText(a) = <<v>> /\ AccessorTexts[a] = <<v>>
    /\ \A v, w \in Words :
          LET a == Node("accessor", <<Leaf("identifier", v), Leaf("identifier", w)>>)
          IN  a \in Accessors /\ AccessorText(a) = <<v, ".", w>> /\ AccessorTexts[a] = <<v, ".", w>>
<1>1. ASSUME NEW v \in Words
      PROVE  LET a == Node("accessor", <<Leaf("identifier", v)>>)
             IN  a \in Accessors /\ AccessorText(a) = <<v>>
  <2> DEFINE x == Leaf("identifier", v)
  <2>1. x \in Identifiers /\ x.lexeme = v
    BY Shapes DEF Identifiers, Leaves
  <2> HIDE DEF x
  <2> DEFINE p == <<x>>
  <2>2. p \in {<<u>> : u \in Identifiers} /\ Len(p) = 1 /\ p[1] = x
    BY <2>1
  <2> HIDE DEF p
  <2>3. Node("accessor", p) \in Accessors /\ Node("accessor", p).parts = p
    BY <2>2, InNodes, Shapes DEF Accessors
  <2>4. AccessorText(Node("accessor", p)) = <<v>>
    BY <2>1, <2>2, <2>3 DEF AccessorText
  <2> QED
    BY <2>3, <2>4 DEF p, x
<1>2. ASSUME NEW v \in Words, NEW w \in Words
      PROVE  LET a == Node("accessor", <<Leaf("identifier", v), Leaf("identifier", w)>>)
             IN  a \in Accessors /\ AccessorText(a) = <<v, ".", w>>
  <2> DEFINE x == Leaf("identifier", v)   y == Leaf("identifier", w)
  <2>1. x \in Identifiers /\ x.lexeme = v /\ y \in Identifiers /\ y.lexeme = w
    BY Shapes DEF Identifiers, Leaves
  <2> HIDE DEF x, y
  <2> DEFINE p == <<x, y>>
  <2>2. p \in Identifiers \X Identifiers /\ Len(p) = 2 /\ p[1] = x /\ p[2] = y
    BY <2>1
  <2> HIDE DEF p
  <2>3. Node("accessor", p) \in Accessors /\ Node("accessor", p).parts = p
    BY <2>2, InNodes, Shapes DEF Accessors
  <2>4. AccessorText(Node("accessor", p)) = <<v, ".", w>>
    BY <2>1, <2>2, <2>3 DEF AccessorText
  <2> QED
    BY <2>3, <2>4 DEF p, x, y
<1>3. \A a \in Accessors : AccessorTexts[a] = AccessorText(a)
  BY DEF AccessorTexts
<1> QED
  BY <1>1, <1>2, <1>3

LEMMA AccessorCases ==
    \A a \in Accessors : \/ \E v \in Words : a = Node("accessor", <<Leaf("identifier", v)>>)
                         \/ \E v, w \in Words : a = AccessorOf(v, w)
<1> SUFFICES ASSUME NEW a \in Accessors
             PROVE  \/ \E v \in Words : a = Node("accessor", <<Leaf("identifier", v)>>)
                    \/ \E v, w \in Words : a = AccessorOf(v, w)
  OBVIOUS
<1> DEFINE P == {<<w>> : w \in Identifiers} \cup (Identifiers \X Identifiers)
<1>1. PICK p \in P : a = Node("accessor", p)
  <2>1. a.parts \in P /\ a = Node("accessor", a.parts)
    <3> HIDE DEF P
    <3>1. a \in Nodes("accessor", P)
      BY DEF Accessors, P
    <3> QED
      BY <3>1, InNodes
  <2> QED
    BY <2>1
<1>2. \A w \in Identifiers : \E v \in Words : w = Leaf("identifier", v)
  BY DEF Identifiers, Leaves
<1>3. CASE p \in {<<w>> : w \in Identifiers}
  BY <1>1, <1>2, <1>3
<1>4. CASE p \in Identifiers \X Identifiers
  <2>1. p[1] \in Identifiers /\ p[2] \in Identifiers /\ p = <<p[1], p[2]>>
    BY <1>4
  <2> QED
    BY <1>1, <1>2, <2>1 DEF AccessorOf
<1> QED
  BY <1>3, <1>4

LEMMA AccessorTextType ==
    /\ AccessorTexts \in TextsOf(Accessors)
    /\ \A a \in Accessors : AccessorText(a) \in Seq(Lexicon) /\ AccessorTexts[a] = AccessorText(a)
                            /\ AccessorText(a) # << >>
<1>1. ASSUME NEW a \in Accessors
      PROVE  AccessorText(a) \in Seq(Lexicon) /\ AccessorText(a) # << >>
  <2>1. \A v, w \in Words : <<v>> \in Seq(Lexicon) /\ <<v, ".", w>> \in Seq(Lexicon)
    <3> TAKE v, w \in Words
    <3>1. v \in Lexicon /\ w \in Lexicon /\ "." \in Lexicon
      BY SymbolsInLexicon
    <3> QED
      BY <3>1
  <2>2. \A v, w : <<v>> # << >> /\ <<v, ".", w>> # << >>
    <3> TAKE v, w
    <3>1. Len(<<v>>) = 1 /\ Len(<<v, ".", w>>) = 3 /\ Len(<< >>) = 0
      OBVIOUS
    <3> QED
      BY <3>1
  <2>3. \/ \E v \in Words : AccessorText(a) = <<v>>
        \/ \E v, w \in Words : AccessorText(a) = <<v, ".", w>>
    BY AccessorCases, AccessorShape, ZenonT(30) DEF AccessorOf
  <2> QED
    BY <2>1, <2>2, <2>3
<1> QED
  BY <1>1 DEF AccessorTexts, TextsOf

----------------------------------------------------------------------------
(***************************************************************************)
(* What the rules of the grammar read.                                     *)
(***************************************************************************)
LEMMA OnlyPair ==
    ASSUME NEW x, NEW y
    PROVE  \A p \in {<<x, y>>} : p[1] = x /\ p[2] = y
OBVIOUS

LEMMA PairInLexicon == \A v, w \in Lexicon : <<v, w>> \in Seq(Lexicon)
OBVIOUS

LEMMA RowReads ==
    ASSUME text \in Seq(Lexicon), NEW r, NEW P, NEW s, NEW Q, Reads(r, P), Reads(s, Q)
    PROVE  Reads(r ++ s, Then(P, Q))
<1> DEFINE k == 1   h == 1
<1>1. k \in Int /\ h \in Int /\ h = k /\ ReadsFrom(r, P, k) /\ ReadsFrom(s, Q, h)
  BY DEF Reads
<1> HIDE DEF k, h
<1>2. ReadsFrom(r ++ s, Then(P, Q), k)
  BY <1>1, ReadsRow
<1> QED
  BY <1>2 DEF Reads, k

LEMMA EitherReads ==
    ASSUME NEW r, NEW P, NEW s, NEW Q, Reads(r, P), Reads(s, Q)
    PROVE  Reads(r | s, P \cup Q)
<1>1. ReadsFrom(r, P \cup Q, 1) /\ ReadsFrom(s, P \cup Q, 1)
  BY DEF Reads, ReadsFrom
<1> QED
  BY <1>1, ReadsEither DEF Reads

LEMMA SubsetReads ==
    ASSUME NEW r, NEW P, NEW Q, P \subseteq Q, Reads(r, P)
    PROVE  Reads(r, Q)
BY DEF Reads, ReadsFrom

LEMMA WholeReads ==
    ASSUME NEW is, NEW r, NEW P, NEW S, NEW T, Reads(r, P),
           \A p \in P : Node(is, p[1]) \in S /\ p[2] = T[Node(is, p[1])]
    PROVE  Reads(match_production(is, r), OneOf(S, T))
<1>1. Reads(match_production(is, r), Whole(is, P))
  BY ReadsProduction DEF Reads
<1>2. Whole(is, P) \subseteq OneOf(S, T)
  <2> SUFFICES ASSUME NEW x \in Whole(is, P) PROVE x \in OneOf(S, T)
    OBVIOUS
  <2>1. PICK p \in P : x = <<<<Node(is, p[1])>>, p[2]>>
    BY DEF Whole
  <2> DEFINE n == Node(is, p[1])
  <2>2. x = <<<<n>>, T[n]>> /\ n \in S
    BY <2>1
  <2> HIDE DEF n
  <2> QED
    BY <2>2 DEF OneOf
<1> QED
  BY <1>1, <1>2, SubsetReads

LEMMA StringReads ==
    ASSUME text \in Seq(Lexicon)
    PROVE  \A s : Reads(match_string(<<s>>), {<<<< >>, <<s>>>>})
BY ReadsLexeme DEF match_string

IdentifierPairs == {<<<<Leaf("identifier", w)>>, <<w>>>> : w \in Words}
NumberPairs == {<<<<Leaf("number", n)>>, <<n>>>> : n \in Numerals}

LEMMA NameReads ==
    ASSUME text \in Seq(Lexicon)
    PROVE  Reads(match_identifier, IdentifierPairs) /\ Reads(match_number, NumberPairs)
BY ReadsAnyLexeme DEF match_identifier, match_number, IdentifierPairs, NumberPairs

LEMMA Glue ==
    \A x, y, z \in Seq(Lexicon) : x \o y \in Seq(Lexicon) /\ (x \o y) \o z = x \o (y \o z)
BY ConcatProperties, ConcatAssociative

LEMMA JoinTuples ==
    \A a, b, c : /\ Join(<<a>>, <<b>>) = <<a, b>> /\ Join(<<a, b>>, <<c>>) = <<a, b, c>>
                 /\ Join(<< >>, <<a>>) = <<a>> /\ Join(<<a>>, << >>) = <<a>>
                 /\ Join(<<a, b>>, << >>) = <<a, b>> /\ Join(<<a, b, c>>, << >>) = <<a, b, c>>
                 /\ Join(<< >>, << >>) = << >>
BY Tuples DEF Join

LEMMA JoinFacts ==
    /\ \A x, y \in Seq(Lexicon) : /\ Join(x, y) \in Seq(Lexicon)
                                  /\ x # << >> \/ y # << >> => Join(x, y) # << >>
    /\ \A x, y, z \in Seq(Lexicon) : Join(Join(x, y), z) = Join(x, Join(y, z))
<1>1. ASSUME NEW x \in Seq(Lexicon), NEW y \in Seq(Lexicon), x # << >> \/ y # << >>
      PROVE  x \o y # << >>
  <2>1. Len(x \o y) = Len(x) + Len(y) /\ Len(x) \in Nat /\ Len(y) \in Nat
    BY ConcatProperties, LenProperties
  <2>2. Len(x) # 0 \/ Len(y) # 0
    BY <1>1, EmptySeq
  <2>3. Len(x \o y) # 0
    BY <2>1, <2>2
  <2>4. Len(<< >>) = 0
    OBVIOUS
  <2> QED
    BY <2>3, <2>4
<1> QED
  BY <1>1, Glue, SMTT(30) DEF Join

LEMMA ThreeLexemes ==
    ASSUME NEW a \in Lexicon, NEW b \in Lexicon, NEW c \in Lexicon
    PROVE  Join(<<a>>, Join(<<b>>, <<c>>)) = <<a, b, c>>
<1> DEFINE x == <<a>>   y == <<b>>   z == <<c>>
<1>1. x \in Seq(Lexicon) /\ y \in Seq(Lexicon) /\ z \in Seq(Lexicon)
  OBVIOUS
<1>2. (x \o y) \o z = <<a, b, c>>
  BY Tuples
<1> HIDE DEF x, y, z
<1>3. (x \o y) \o z = x \o (y \o z)
  BY ONLY <1>1, Glue
<1> QED
  BY <1>2, <1>3 DEF x, y, z, Join

StrictPairs == {<<<<AccessorOf(v, w)>>, <<v, ".", w>>>> : v \in Words, w \in Words}

LEMMA AccessorReads ==
    ASSUME text \in Seq(Lexicon)
    PROVE  /\ Reads(member_accessor_grammar, OneOf(Accessors, AccessorTexts))
           /\ Reads(strict_member_accessor_grammar, StrictPairs)
<1> DEFINE I == IdentifierPairs
           D == {<<<< >>, <<".">>>>}
           E == {<<<< >>, << >>>>}
           id == match_identifier
           dot == match_string(<<".">>)
           M == Then(D, I) \cup E
<1>1. Reads(id, I) /\ Reads(dot, D) /\ Reads(nothing, E)
  BY NameReads, StringReads, ReadsNothing
<1>2. member_accessor_grammar = match_production("accessor", id ++ ((dot ++ id) | nothing))
  BY DEF member_accessor_grammar, may
<1>3. strict_member_accessor_grammar = match_production("accessor", (id ++ dot) ++ id)
  BY DEF strict_member_accessor_grammar
<1>4. \A p \in I : \E w \in Words : p[1] = <<Leaf("identifier", w)>> /\ p[2] = <<w>>
  BY DEF IdentifierPairs
<1>5. \A p \in D : p[1] = << >> /\ p[2] = <<".">>
  OBVIOUS
<1>6. \A p \in E : p[1] = << >> /\ p[2] = << >>
  OBVIOUS
<1>7. M = Then(D, I) \cup E
  OBVIOUS
<1> HIDE DEF I, D, E, id, dot, M
<1>8. Reads(id ++ ((dot ++ id) | nothing), Then(I, M))
  <2>1. Reads(dot ++ id, Then(D, I))
    BY <1>1, RowReads
  <2> DEFINE r == dot ++ id   s == r | nothing
  <2> HIDE DEF r
  <2>2. Reads(s, M)
    BY <1>1, <1>7, <2>1, EitherReads DEF r
  <2> HIDE DEF s
  <2>3. Reads(id ++ s, Then(I, M))
    BY <1>1, <2>2, RowReads
  <2> QED
    BY <2>3 DEF r, s
<1>9. Reads((id ++ dot) ++ id, Then(Then(I, D), I))
  <2>1. Reads(id ++ dot, Then(I, D))
    BY <1>1, RowReads
  <2> DEFINE r == id ++ dot
  <2> HIDE DEF r
  <2>2. Reads(r ++ id, Then(Then(I, D), I))
    BY <1>1, <2>1, RowReads DEF r
  <2> QED
    BY <2>2 DEF r
<1>10. ASSUME NEW p \in Then(I, M)
       PROVE  Node("accessor", p[1]) \in Accessors /\ p[2] = AccessorTexts[Node("accessor", p[1])]
  <2>1. PICK a \in I, b \in M : p[1] = Join(a[1], b[1]) /\ p[2] = Join(a[2], b[2])
    BY ThenParts
  <2>2. PICK v \in Words : a[1] = <<Leaf("identifier", v)>> /\ a[2] = <<v>>
    BY <1>4
  <2>3. CASE b \in E
    <3>1. b[1] = << >> /\ b[2] = << >>
      BY <1>6, <2>3
    <3>2. p[1] = Join(<<Leaf("identifier", v)>>, << >>) /\ p[2] = Join(<<v>>, << >>)
      BY <2>1, <2>2, <3>1
    <3>3. p[1] = <<Leaf("identifier", v)>> /\ p[2] = <<v>>
      BY <3>2, JoinTuples
    <3> QED
      BY <3>3, AccessorShape
  <2>4. CASE b \in Then(D, I)
    <3>1. PICK c \in D, d \in I : b[1] = Join(c[1], d[1]) /\ b[2] = Join(c[2], d[2])
      BY <2>4, ThenParts
    <3>2. PICK w \in Words : d[1] = <<Leaf("identifier", w)>> /\ d[2] = <<w>>
      BY <1>4
    <3>3. b[1] = Join(<< >>, <<Leaf("identifier", w)>>) /\ b[2] = Join(<<".">>, <<w>>)
      BY <1>5, <3>1, <3>2
    <3>4. b[1] = <<Leaf("identifier", w)>>
      BY <3>3, JoinTuples
    <3>5. p[1] = Join(<<Leaf("identifier", v)>>, b[1]) /\ p[2] = Join(<<v>>, b[2])
      BY <2>1, <2>2
    <3>6. p[1] = <<Leaf("identifier", v), Leaf("identifier", w)>>
      BY <3>4, <3>5, JoinTuples
    <3>7. p[2] = <<v, ".", w>>
      <4>1. v \in Lexicon /\ w \in Lexicon /\ "." \in Lexicon
        BY SymbolsInLexicon
      <4> QED
        BY <3>3, <3>5, <4>1, ThreeLexemes
    <3> QED
      BY <3>6, <3>7, AccessorShape
  <2> QED
    BY <1>7, <2>3, <2>4
<1>11. ASSUME NEW p \in Then(Then(I, D), I)
       PROVE  <<<<Node("accessor", p[1])>>, p[2]>> \in StrictPairs
  <2>1. PICK a \in Then(I, D), b \in I : p[1] = Join(a[1], b[1]) /\ p[2] = Join(a[2], b[2])
    BY ThenParts
  <2>2. PICK w \in Words : b[1] = <<Leaf("identifier", w)>> /\ b[2] = <<w>>
    BY <1>4
  <2>3. PICK c \in I, d \in D : a[1] = Join(c[1], d[1]) /\ a[2] = Join(c[2], d[2])
    BY ThenParts
  <2>4. PICK v \in Words : c[1] = <<Leaf("identifier", v)>> /\ c[2] = <<v>>
    BY <1>4
  <2>5. a[1] = Join(<<Leaf("identifier", v)>>, << >>) /\ a[2] = Join(<<v>>, <<".">>)
    BY <1>5, <2>3, <2>4
  <2>6. a[1] = <<Leaf("identifier", v)>> /\ a[2] = <<v, ".">>
    BY <2>5, JoinTuples
  <2>7. p[1] = Join(<<Leaf("identifier", v)>>, <<Leaf("identifier", w)>>) /\ p[2] = Join(<<v, ".">>, <<w>>)
    BY <2>1, <2>2, <2>6
  <2>8. p[1] = <<Leaf("identifier", v), Leaf("identifier", w)>> /\ p[2] = <<v, ".", w>>
    BY <2>7, JoinTuples
  <2>9. Node("accessor", p[1]) = AccessorOf(v, w)
    BY <2>8 DEF AccessorOf
  <2> QED
    BY <2>8, <2>9 DEF StrictPairs
<1> DEFINE r == id ++ ((dot ++ id) | nothing)   s == (id ++ dot) ++ id
           P == Then(I, M)   Q == Then(Then(I, D), I)
<1>12. Reads(match_production("accessor", r), OneOf(Accessors, AccessorTexts))
  <2> HIDE DEF r, P
  <2> QED
    BY <1>8, <1>10, WholeReads DEF r, P
<1>13. Reads(match_production("accessor", s), StrictPairs)
  <2> HIDE DEF s
  <2>1. Reads(match_production("accessor", s), Whole("accessor", Q))
    BY <1>9, ReadsProduction DEF Reads, s
  <2>2. Whole("accessor", Q) \subseteq StrictPairs
    <3> HIDE DEF Q
    <3> QED
      BY <1>11 DEF Whole, Q
  <2> QED
    BY <2>1, <2>2, SubsetReads
<1> QED
  BY <1>2, <1>3, <1>12, <1>13

----------------------------------------------------------------------------
(***************************************************************************)
(* Expressions: what is read is balanced.                                  *)
(***************************************************************************)
LEMMA MembersAreAccessors == Names \subseteq Identifiers /\ Members \subseteq Accessors
BY DEF Names, Identifiers, Leaves, Members, Accessors, Nodes

LEMMA ItemTextIs ==
    /\ \A w \in Words : /\ w \notin {"true", "false"} => Leaf("identifier", w) \in Items
                        /\ ItemText(Leaf("identifier", w)) = <<w>>
    /\ \A n \in Numerals : Leaf("number", n) \in Items /\ ItemText(Leaf("number", n)) = <<n>>
    /\ \A b \in {"true", "false"} : Leaf("bool", b) \in Items /\ ItemText(Leaf("bool", b)) = <<b>>
    /\ \A a \in Members : a \in Items /\ ItemText(a) = AccessorText(a)
    /\ Leaf("level 1", "ADD") \in Items /\ ItemText(Leaf("level 1", "ADD")) = <<"+">>
    /\ Leaf("level 1", "SUBTRACT") \in Items /\ ItemText(Leaf("level 1", "SUBTRACT")) = <<"-">>
    /\ Leaf("level 2", "MULTIPLY") \in Items /\ ItemText(Leaf("level 2", "MULTIPLY")) = <<"*">>
    /\ Leaf("level 2", "DIVIDE") \in Items /\ ItemText(Leaf("level 2", "DIVIDE")) = <<"/">>
    /\ Open \in Items /\ ItemText(Open) = <<"(">>
    /\ Close \in Items /\ ItemText(Close) = <<")">>
<1>1. \A w \in Words : w \notin {"true", "false"} => Leaf("identifier", w) \in Items
  BY DEF Items, Operands, Names, Literals, Leaves
<1>2. \A n \in Numerals : Leaf("number", n) \in Items
  BY DEF Items, Operands, Numbers, Leaves
<1>3. \A b \in {"true", "false"} : Leaf("bool", b) \in Items
  BY DEF Items, Operands, Literals, Leaves
<1>4. \A a \in Members : a \in Items /\ a.is = "accessor"
  <2>1. \A a \in Members : a \in Items
    BY DEF Items, Operands
  <2>2. \A a \in Members : a.is = "accessor"
    BY DEF Members, Nodes
  <2> QED
    BY <2>1, <2>2
<1>5. /\ Leaf("level 1", "ADD") \in Items /\ Leaf("level 1", "SUBTRACT") \in Items
      /\ Leaf("level 2", "MULTIPLY") \in Items /\ Leaf("level 2", "DIVIDE") \in Items
  BY DEF Items, Operators, Leaves
<1>6. Open \in Items /\ Close \in Items
  BY DEF Items
<1>7. \A is, lexeme : /\ is \in {"identifier", "number", "bool", "open", "close"} =>
                            ItemText(Leaf(is, lexeme)) = <<lexeme>>
                      /\ is \in {"level 1", "level 2"} => ItemText(Leaf(is, lexeme)) = Symbols[lexeme]
  BY Shapes, ZenonT(30) DEF ItemText
<1>8. \A a \in Members : ItemText(a) = AccessorText(a)
  BY <1>4 DEF ItemText
<1>9. ItemText(Open) = <<"(">> /\ ItemText(Close) = <<")">>
  BY <1>7 DEF Open, Close
<1>10. /\ \A w : ItemText(Leaf("identifier", w)) = <<w>>
       /\ \A n : ItemText(Leaf("number", n)) = <<n>>
       /\ \A b : ItemText(Leaf("bool", b)) = <<b>>
  BY <1>7, Zenon
<1>11. /\ ItemText(Leaf("level 1", "ADD")) = <<"+">> /\ ItemText(Leaf("level 1", "SUBTRACT")) = <<"-">>
       /\ ItemText(Leaf("level 2", "MULTIPLY")) = <<"*">> /\ ItemText(Leaf("level 2", "DIVIDE")) = <<"/">>
  <2>1. /\ Symbols["ADD"] = <<"+">> /\ Symbols["SUBTRACT"] = <<"-">>
        /\ Symbols["MULTIPLY"] = <<"*">> /\ Symbols["DIVIDE"] = <<"/">>
    BY SymbolsInLexicon, Zenon
  <2> QED
    BY <1>7, <2>1, Zenon
<1> QED
  BY <1>1, <1>2, <1>3, <1>4, <1>5, <1>6, <1>8, <1>9, <1>10, <1>11, Zenon

LEMMA ItemTextType ==
    /\ ItemTexts \in TextsOf(Items)
    /\ \A x \in Items : ItemTexts[x] = ItemText(x)
<1>1. ASSUME NEW x \in Items PROVE ItemText(x) \in Seq(Lexicon)
  <2>1. \/ x \in Numbers \/ x \in Leaves("bool", {"true", "false"}) \/ x \in Names
        \/ x \in Members \/ x \in Leaves("level 1", {"ADD", "SUBTRACT"})
        \/ x \in Leaves("level 2", {"MULTIPLY", "DIVIDE"}) \/ x = Open \/ x = Close
    BY ZenonT(30) DEF Items, Operands, Literals, Operators
  <2>2. CASE x \in Numbers
    BY <2>2, ItemTextIs, SymbolsInLexicon, ZenonT(30) DEF Numbers, Leaves
  <2>3. CASE x \in Leaves("bool", {"true", "false"})
    BY <2>3, ItemTextIs, SymbolsInLexicon, ZenonT(30) DEF Leaves
  <2>4. CASE x \in Names
    BY <2>4, ItemTextIs, SymbolsInLexicon, ZenonT(30) DEF Names, Literals, Leaves
  <2>5. CASE x \in Members
    BY <2>5, MembersAreAccessors, ItemTextIs, AccessorTextType, ZenonT(30)
  <2>6. CASE x \in Leaves("level 1", {"ADD", "SUBTRACT"})
    <3>1. x = Leaf("level 1", "ADD") \/ x = Leaf("level 1", "SUBTRACT")
      BY <2>6, ZenonT(30) DEF Leaves
    <3> QED
      BY <3>1, ItemTextIs, SymbolsInLexicon
  <2>7. CASE x \in Leaves("level 2", {"MULTIPLY", "DIVIDE"})
    <3>1. x = Leaf("level 2", "MULTIPLY") \/ x = Leaf("level 2", "DIVIDE")
      BY <2>7 DEF Leaves
    <3> QED
      BY <3>1, ItemTextIs, SymbolsInLexicon
  <2>8. CASE x = Open \/ x = Close
    BY <2>8, ItemTextIs, SymbolsInLexicon, ZenonT(30)
  <2> QED
    BY <2>1, <2>2, <2>3, <2>4, <2>5, <2>6, <2>7, <2>8
<1> QED
  BY <1>1 DEF ItemTexts, TextsOf

ItemPairs == {p \in ManyOf(Items, ItemTexts) : Balanced(p[1])}

LEMMA InItemPairs ==
    ASSUME NEW xs
    PROVE  /\ xs \in Seq(Items) /\ Balanced(xs) => <<xs, Written(xs, ItemTexts)>> \in ItemPairs
           /\ \A p \in ItemPairs : /\ p[1] \in Seq(Items) /\ Balanced(p[1])
                                   /\ p[2] = Written(p[1], ItemTexts)
                                   /\ p = <<p[1], p[2]>>
BY DEF ItemPairs, ManyOf

LEMMA OneItem ==
    ASSUME NEW x \in Items, x # Open, x # Close
    PROVE  <<<<x>>, ItemText(x)>> \in ItemPairs
<1> DEFINE xs == <<x>>
<1>1. xs \in Seq(Items) /\ Balanced(xs)
  BY BalancedOne
<1>2. Written(xs, ItemTexts) = ItemText(x)
  BY ItemTextType, WrittenOne
<1> HIDE DEF xs
<1>3. <<xs, ItemText(x)>> \in ItemPairs
  BY <1>1, <1>2, InItemPairs
<1> QED
  BY <1>3 DEF xs

LEMMA MoreItems == Then(ItemPairs, ItemPairs) \subseteq ItemPairs
<1> SUFFICES ASSUME NEW x \in Then(ItemPairs, ItemPairs) PROVE x \in ItemPairs
  OBVIOUS
<1>1. PICK p \in ItemPairs, q \in ItemPairs : x = <<Join(p[1], q[1]), Join(p[2], q[2])>>
  BY DEF Then
<1> DEFINE s == p[1]   t == q[1]
<1>2. s \in Seq(Items) /\ t \in Seq(Items) /\ Balanced(s) /\ Balanced(t)
  BY InItemPairs
<1>3. p[2] = Written(s, ItemTexts) /\ q[2] = Written(t, ItemTexts)
  BY InItemPairs
<1> HIDE DEF s, t
<1>4. s \o t \in Seq(Items) /\ Balanced(s \o t)
  <2>1. s \o t \in Seq(Items)
    BY ONLY <1>2, ConcatProperties
  <2>2. Balanced(s \o t)
    BY ONLY <1>2, BalancedBoth
  <2> QED
    BY <2>1, <2>2
<1>5. Written(s \o t, ItemTexts) = Written(s, ItemTexts) \o Written(t, ItemTexts)
  <2>1. s \in Seq(Items) /\ t \in Seq(Items) /\ ItemTexts \in TextsOf(Items)
    BY <1>2, ItemTextType
  <2> QED
    BY ONLY <2>1, WrittenFacts
<1>6. x = <<Join(s, t), Written(Join(s, t), ItemTexts)>>
  <2>1. Join(p[2], q[2]) = Written(Join(s, t), ItemTexts)
    BY <1>3, <1>5 DEF Join
  <2> QED
    BY <1>1, <2>1 DEF s, t
<1>7. Join(s, t) \in Seq(Items) /\ Balanced(Join(s, t))
  BY <1>4 DEF Join
<1> QED
  BY <1>6, <1>7, InItemPairs

LEMMA NestedItems ==
    ASSUME NEW p \in ItemPairs
    PROVE  <<Join(Join(<<Open>>, p[1]), <<Close>>), Join(Join(<<"(">>, p[2]), <<")">>)>> \in ItemPairs
<1> DEFINE s == p[1]   o == <<Open>>   c == <<Close>>
<1>1. s \in Seq(Items) /\ Balanced(s) /\ p[2] = Written(s, ItemTexts)
  BY InItemPairs
<1>0. /\ Open \in Items /\ Close \in Items
      /\ ItemTexts[Open] = <<"(">> /\ ItemTexts[Close] = <<")">> /\ ItemTexts \in TextsOf(Items)
  BY ItemTextIs, ItemTextType
<1>2. o \in Seq(Items) /\ c \in Seq(Items)
  BY <1>0
<1>3. Written(o, ItemTexts) = <<"(">> /\ Written(c, ItemTexts) = <<")">>
  BY <1>0, WrittenOne
<1>4. Balanced(o \o s \o c)
  BY <1>1, ItemTextIs, BalancedNested
<1> HIDE DEF s, o, c
<1> DEFINE v == o \o s   u == v \o c
<1>5. v \in Seq(Items) /\ Written(v, ItemTexts) = Written(o, ItemTexts) \o Written(s, ItemTexts)
  BY <1>1, <1>2, ConcatProperties, ItemTextType, WrittenFacts
<1>6. Balanced(u)
  BY <1>4
<1> HIDE DEF v
<1>7. u \in Seq(Items) /\ Written(u, ItemTexts) = Written(v, ItemTexts) \o Written(c, ItemTexts)
  BY <1>2, <1>5, ConcatProperties, ItemTextType, WrittenFacts
<1> HIDE DEF u
<1>8. <<u, Written(u, ItemTexts)>> \in ItemPairs
  BY <1>6, <1>7, InItemPairs
<1>9. u = Join(Join(<<Open>>, p[1]), <<Close>>)
  BY DEF u, v, o, c, s, Join
<1>10. Written(u, ItemTexts) = Join(Join(<<"(">>, p[2]), <<")">>)
  BY <1>1, <1>3, <1>5, <1>7 DEF Join
<1> QED
  BY <1>8, <1>9, <1>10

LEMMA ReadsAnywhere ==
    ASSUME text \in Seq(Lexicon), NEW r, NEW P, NEW k, Reads(r, P)
    PROVE  ReadsFrom(r, P, k)
BY ReadsEach DEF ReadsFrom

SomeItems == {p \in ItemPairs : p[2] # << >>}

LEMMA PairParts == \A a, b : <<a, b>>[1] = a /\ <<a, b>>[2] = b
OBVIOUS

(***************************************************************************)
(* What is consumed begins with the lexeme at its position.                *)
(***************************************************************************)
LEMMA HeadLexeme ==
    ASSUME text \in Seq(Lexicon), NEW i \in Positions, NEW j \in Positions, i <= j,
           Consumed(i, j) # << >>
    PROVE  i <= Len(text) /\ text[i] = Consumed(i, j)[1]
<1>1. i # j
  BY EmptyConsumed
<1>2. /\ i \in Nat /\ j \in Nat /\ i < j /\ Len(text) \in Nat /\ j <= Len(text) + 1 /\ i + 1 - 1 = i
      /\ 1 \in 1..(j - i)
  BY <1>1, TextFacts
<1>3. Consumed(i, j)[1] = text[i + 1 - 1]
  BY <1>2, ConsumedFacts
<1> QED
  BY <1>2, <1>3

LEMMA ReadsElse ==
    ASSUME NEW r, NEW s, NEW P, Reads(r, P),
           \A i \in Positions : r[i] = {} => \A m \in s[i] :
              m.to \in Positions /\ i <= m.to /\ <<m.built, Consumed(i, m.to)>> \in P
    PROVE  Reads(r | s, P)
BY Alternative DEF Reads, ReadsFrom

LEMMA OneItemReads ==
    ASSUME text \in Seq(Lexicon)
    PROVE  /\ Reads(((match_number | bool_literal_grammar) | strict_member_accessor_grammar) | match_identifier,
                    SomeItems)
           /\ Reads(level_1_grammar, SomeItems) /\ Reads(level_2_grammar, SomeItems)
<1>1. ASSUME NEW x \in Items, x # Open, x # Close, ItemText(x) # << >>
      PROVE  <<<<x>>, ItemText(x)>> \in SomeItems
  BY <1>1, OneItem DEF SomeItems
<1>2. \A is, lexeme : is \notin {"open", "close"} => Leaf(is, lexeme) # Open /\ Leaf(is, lexeme) # Close
  BY DEF Leaf, Open, Close
<1>3. NumberPairs \subseteq SomeItems
  <2>1. ASSUME NEW n \in Numerals PROVE <<<<Leaf("number", n)>>, <<n>>>> \in SomeItems
    <3> DEFINE x == Leaf("number", n)
    <3>1. x \in Items /\ ItemText(x) = <<n>> /\ <<n>> # << >> /\ x # Open /\ x # Close
      BY <1>2, ItemTextIs, OneIsSome
    <3> HIDE DEF x
    <3>2. <<<<x>>, ItemText(x)>> \in SomeItems
      BY <1>1, <3>1
    <3> QED
      BY <3>1, <3>2 DEF x
  <2> QED
    BY <2>1 DEF NumberPairs
<1>4. ASSUME NEW w \in Words, w \notin {"true", "false"}
      PROVE  <<<<Leaf("identifier", w)>>, <<w>>>> \in SomeItems
  <2> DEFINE x == Leaf("identifier", w)
  <2>1. x \in Items /\ ItemText(x) = <<w>> /\ <<w>> # << >> /\ x # Open /\ x # Close
    BY <1>2, <1>4, ItemTextIs, OneIsSome
  <2> HIDE DEF x
  <2>2. <<<<x>>, ItemText(x)>> \in SomeItems
    BY <1>1, <2>1
  <2> QED
    BY <2>1, <2>2 DEF x
<1>5. ASSUME NEW v \in Words, NEW w \in Words, v \notin {"true", "false"}
      PROVE  <<<<AccessorOf(v, w)>>, <<v, ".", w>>>> \in SomeItems
  <2> DEFINE a == AccessorOf(v, w)
  <2>1. a \in Members
    <3> DEFINE x == Leaf("identifier", v)   y == Leaf("identifier", w)   ps == <<x, y>>
    <3>1. x \in Names /\ y \in Identifiers
      BY <1>5 DEF Names, Literals, Identifiers, Leaves
    <3> HIDE DEF x, y
    <3>2. ps \in Names \X Identifiers
      BY <3>1
    <3> HIDE DEF ps
    <3>3. Node("accessor", ps) \in Members
      BY <3>2, InNodes DEF Members
    <3> QED
      BY <3>3 DEF ps, x, y, AccessorOf
  <2>2. a.is = "accessor" /\ Open.is = "open" /\ Close.is = "close"
    BY Shapes DEF AccessorOf, Open, Close
  <2>3. a \in Items /\ ItemText(a) = AccessorText(a)
    BY <2>1, ItemTextIs
  <2>4. AccessorText(a) = <<v, ".", w>> /\ AccessorText(a) # << >>
    BY <2>1, AccessorShape, AccessorTextType, MembersAreAccessors DEF AccessorOf
  <2> HIDE DEF a
  <2>5. a # Open /\ a # Close
    BY <2>2
  <2>6. <<<<a>>, ItemText(a)>> \in SomeItems
    BY <1>1, <2>3, <2>4, <2>5
  <2> QED
    BY <2>3, <2>4, <2>6 DEF a
<1>6. ASSUME NEW is, NEW name, NEW lexeme, is \notin {"open", "close"},
             Leaf(is, name) \in Items, ItemText(Leaf(is, name)) = <<lexeme>>
      PROVE  Reads(match_operand(<<lexeme>>, Leaf(is, name)), SomeItems)
  <2> DEFINE x == Leaf(is, name)
  <2>1. <<<<x>>, <<lexeme>>>> \in SomeItems
    BY <1>1, <1>2, <1>6, OneIsSome
  <2> DEFINE P == {<<<<x>>, <<lexeme>>>>}
  <2>2. Reads(match_operand(<<lexeme>>, x), P)
    BY ReadsLexeme DEF match_operand
  <2>3. P \subseteq SomeItems
    BY <2>1
  <2> HIDE DEF P, x
  <2>4. Reads(match_operand(<<lexeme>>, x), SomeItems)
    BY <2>2, <2>3, SubsetReads
  <2> QED
    BY <2>4 DEF x
<1>7. Reads(bool_literal_grammar, SomeItems)
  <2>1. /\ Reads(match_operand(<<"true">>, Leaf("bool", "true")), SomeItems)
        /\ Reads(match_operand(<<"false">>, Leaf("bool", "false")), SomeItems)
    BY <1>6, ItemTextIs
  <2> QED
    BY <2>1, ReadsEither DEF bool_literal_grammar, Reads
<1>8. /\ operator_exec["+"] = "ADD" /\ operator_exec["-"] = "SUBTRACT"
      /\ operator_exec["*"] = "MULTIPLY" /\ operator_exec["/"] = "DIVIDE"
  BY DEF operator_exec
<1>9. Reads(level_1_grammar, SomeItems)
  <2>1. /\ Reads(expression_operand("level 1", "+"), SomeItems)
        /\ Reads(expression_operand("level 1", "-"), SomeItems)
    BY <1>6, <1>8, ItemTextIs DEF expression_operand
  <2> QED
    BY <2>1, ReadsEither DEF level_1_grammar, Reads
<1>10. Reads(level_2_grammar, SomeItems)
  <2>1. /\ Reads(expression_operand("level 2", "*"), SomeItems)
        /\ Reads(expression_operand("level 2", "/"), SomeItems)
    BY <1>6, <1>8, ItemTextIs DEF expression_operand
  <2> QED
    BY <2>1, ReadsEither DEF level_2_grammar, Reads
<1>11. Reads(match_number | bool_literal_grammar, SomeItems)
  BY <1>3, <1>7, NameReads, SubsetReads, ReadsEither DEF Reads
<1>12. \A i \in Positions : i <= Len(text) /\ text[i] \in {"true", "false"} =>
           (match_number | bool_literal_grammar)[i] # {}
  <2> SUFFICES ASSUME NEW i \in Positions, i <= Len(text), text[i] \in {"true", "false"}
               PROVE  bool_literal_grammar[i] # {}
    BY Alternative
  <2> DEFINE t == match_operand(<<"true">>, Leaf("bool", "true"))
             f == match_operand(<<"false">>, Leaf("bool", "false"))
  <2>1. /\ t[i] = IF i <= Len(text) /\ text[i] = "true" THEN {Match(i + 1, <<Leaf("bool", "true")>>)} ELSE {}
        /\ f[i] = IF i <= Len(text) /\ text[i] = "false" THEN {Match(i + 1, <<Leaf("bool", "false")>>)} ELSE {}
    BY OneLexeme DEF match_operand
  <2>2. t[i] # {} \/ f[i] # {}
    BY <2>1
  <2>3. bool_literal_grammar = (t | f)
    BY DEF bool_literal_grammar
  <2> HIDE DEF t, f
  <2> QED
    BY <2>2, <2>3, Alternative
<1> DEFINE nb == match_number | bool_literal_grammar
           a == strict_member_accessor_grammar   id == match_identifier   nba == nb | a
<1>13. Reads(nba, SomeItems)
  <2>1. Reads(nb, SomeItems) /\ Reads(a, StrictPairs)
    BY <1>11, AccessorReads
  <2>2. ASSUME NEW i \in Positions, nb[i] = {}, NEW m \in a[i]
        PROVE  m.to \in Positions /\ i <= m.to /\ <<m.built, Consumed(i, m.to)>> \in SomeItems
    <3>1. m.to \in Positions /\ i <= m.to /\ <<m.built, Consumed(i, m.to)>> \in StrictPairs
      BY <2>1, ReadsEach
    <3>2. PICK v \in Words, w \in Words : m.built = <<AccessorOf(v, w)>> /\ Consumed(i, m.to) = <<v, ".", w>>
      BY <3>1 DEF StrictPairs
    <3>3. <<v, ".", w>> # << >> /\ <<v, ".", w>>[1] = v
      <4>1. Len(<<v, ".", w>>) = 3 /\ Len(<< >>) = 0
        OBVIOUS
      <4> QED
        BY <4>1
    <3>4. i <= Len(text) /\ text[i] = v
      BY <3>1, <3>2, <3>3, HeadLexeme
    <3>5. v \notin {"true", "false"}
      BY <1>12, <2>2, <3>4
    <3> QED
      BY <1>5, <3>1, <3>2, <3>5
  <2> HIDE DEF nb, a
  <2> QED
    BY <2>1, <2>2, ReadsElse
<1>14. Reads(nba | id, SomeItems)
  <2>1. Reads(id, IdentifierPairs)
    BY NameReads
  <2>2. \A i \in Positions : nba[i] = {} => nb[i] = {}
    BY Alternative
  <2>3. ASSUME NEW i \in Positions, nba[i] = {}, NEW m \in id[i]
        PROVE  m.to \in Positions /\ i <= m.to /\ <<m.built, Consumed(i, m.to)>> \in SomeItems
    <3>1. m.to \in Positions /\ i <= m.to /\ <<m.built, Consumed(i, m.to)>> \in IdentifierPairs
      BY <2>1, ReadsEach
    <3>2. PICK w \in Words : m.built = <<Leaf("identifier", w)>> /\ Consumed(i, m.to) = <<w>>
      BY <3>1 DEF IdentifierPairs
    <3>3. <<w>> # << >> /\ <<w>>[1] = w
      BY OneIsSome
    <3>4. i <= Len(text) /\ text[i] = w
      BY <3>1, <3>2, <3>3, HeadLexeme
    <3>5. w \notin {"true", "false"}
      BY <1>12, <2>2, <2>3, <3>4
    <3> QED
      BY <1>4, <3>1, <3>2, <3>5
  <2> HIDE DEF nba, id
  <2> QED
    BY <1>13, <2>1, <2>3, ReadsElse
<1> QED
  BY <1>9, <1>10, <1>14

LEMMA ParenthesesRead ==
    ASSUME text \in Seq(Lexicon), NEW e, NEW k \in Int, ReadsFrom(e, ItemPairs, k + 1)
    PROVE  ReadsFrom(parenthesised(operand(e)), SomeItems, k)
<1> DEFINE A == {<<<< >>, <<"(">>>>}
           B == {<<<< >>, <<")">>>>}
           O == {<<Join(Join(<<Open>>, p[1]), <<Close>>), p[2]>> : p \in ItemPairs}
           r == match_string(<<"(">>)   s == match_string(<<")">>)   o == operand(e)   h == k + 1
<1>1. ReadsFrom(r, A, k) /\ ReadsFrom(s, B, k)
  <2>1. Reads(r, A) /\ Reads(s, B)
    BY StringReads
  <2> HIDE DEF r, s, A, B
  <2> QED
    BY <2>1, ReadsAnywhere
<1>2. ReadsFrom(o, O, h)
  <2> SUFFICES ASSUME NEW i \in Positions, h <= i, NEW n \in o[i]
               PROVE  n.to \in Positions /\ i <= n.to /\ <<n.built, Consumed(i, n.to)>> \in O
    BY DEF ReadsFrom
  <2>1. PICK m \in e[i] : n = Match(m.to, <<Open>> \o m.built \o <<Close>>)
    BY DEF operand
  <2>2. n.to = m.to /\ n.built = Join(Join(<<Open>>, m.built), <<Close>>)
    BY <2>1 DEF Match, Join
  <2>3. m.to \in Positions /\ i <= m.to /\ <<m.built, Consumed(i, m.to)>> \in ItemPairs
    BY DEF ReadsFrom
  <2> DEFINE p == <<m.built, Consumed(i, m.to)>>
  <2>4. p \in ItemPairs /\ <<n.built, Consumed(i, n.to)>> = <<Join(Join(<<Open>>, p[1]), <<Close>>), p[2]>>
    BY <2>2, <2>3
  <2>5. <<n.built, Consumed(i, n.to)>> \in O
    <3> HIDE DEF p
    <3> QED
      BY <2>4
  <2> QED
    BY <2>2, <2>3, <2>5
<1>3. parenthesised(operand(e)) = (r ++ o) ++ s
  BY DEF parenthesised
<1>4. \A p \in A : p[1] = << >> /\ p[2] = <<"(">> /\ p[2] # << >>
  <2> TAKE p \in A
  <2>1. p[1] = << >> /\ p[2] = <<"(">>
    BY PairParts
  <2> QED
    BY <2>1, OneIsSome
<1>5. \A p \in B : p[1] = << >> /\ p[2] = <<")">>
  BY PairParts
<1>6. \A p \in O : \E q \in ItemPairs : p[1] = Join(Join(<<Open>>, q[1]), <<Close>>) /\ p[2] = q[2]
  <2> TAKE p \in O
  <2>1. PICK q \in ItemPairs : p = <<Join(Join(<<Open>>, q[1]), <<Close>>), q[2]>>
    OBVIOUS
  <2> DEFINE u == Join(Join(<<Open>>, q[1]), <<Close>>)
  <2>2. p = <<u, q[2]>>
    BY <2>1
  <2> HIDE DEF u
  <2>3. p[1] = u /\ p[2] = q[2]
    BY <2>2
  <2> QED
    BY <2>3 DEF u
<1>7. h = k + 1 /\ h \in Int
  OBVIOUS
<1> HIDE DEF A, B, O, r, s, o, h
<1>8. ReadsFrom(r ++ o, Then(A, O), k)
  BY <1>1, <1>2, <1>4, <1>7, ReadsRow
<1>9. ReadsFrom((r ++ o) ++ s, Then(Then(A, O), B), k)
  <2> DEFINE t == r ++ o
  <2> HIDE DEF t
  <2>1. ReadsFrom(t ++ s, Then(Then(A, O), B), k)
    BY <1>1, <1>8, ReadsRow DEF t
  <2> QED
    BY <2>1 DEF t
<1>10. Then(Then(A, O), B) \subseteq SomeItems
  <2> SUFFICES ASSUME NEW x \in Then(Then(A, O), B) PROVE x \in SomeItems
    OBVIOUS
  <2>1. PICK y \in Then(A, O), b \in B : x[1] = Join(y[1], b[1]) /\ x[2] = Join(y[2], b[2])
    BY ThenParts
  <2>2. PICK a \in A, c \in O : y[1] = Join(a[1], c[1]) /\ y[2] = Join(a[2], c[2])
    BY ThenParts
  <2>3. PICK q \in ItemPairs : c[1] = Join(Join(<<Open>>, q[1]), <<Close>>) /\ c[2] = q[2]
    BY <1>6
  <2> DEFINE u == Join(Join(<<Open>>, q[1]), <<Close>>)
             v == Join(Join(<<"(">>, q[2]), <<")">>)
  <2>4. <<u, v>> \in ItemPairs
    BY NestedItems
  <2>5. u \in Seq(Items)
    BY <2>4, InItemPairs
  <2>6. x[2] = v
    BY <1>4, <1>5, <2>1, <2>2, <2>3
  <2>7. x[1] = Join(Join(<< >>, u), << >>)
    BY <1>4, <1>5, <2>1, <2>2, <2>3
  <2>8. Join(Join(<< >>, u), << >>) = u
    <3> HIDE DEF u
    <3> QED
      BY <2>5, ConcatEmptySeq DEF Join
  <2>9. x = <<x[1], x[2]>>
    BY DEF Then
  <2>10. v # << >>
    <3>1. q[1] \in Seq(Items) /\ q[2] = Written(q[1], ItemTexts)
      BY InItemPairs
    <3>2. q[2] \in Seq(Lexicon)
      BY <3>1, ItemTextType, WrittenFacts
    <3>3. <<"(">> \in Seq(Lexicon) /\ <<")">> \in Seq(Lexicon) /\ <<")">> # << >>
      BY SymbolsInLexicon, OneIsSome
    <3> DEFINE w == q[2]   l == <<"(">>   z == <<")">>
    <3> HIDE DEF w, l, z
    <3>4. Join(Join(l, w), z) # << >>
      BY <3>2, <3>3, JoinFacts DEF w, l, z
    <3> QED
      BY <3>4 DEF w, l, z
  <2> HIDE DEF u, v
  <2>11. x = <<u, v>>
    BY <2>6, <2>7, <2>8, <2>9
  <2> QED
    BY <2>4, <2>10, <2>11 DEF SomeItems
<1> QED
  BY <1>3, <1>9, <1>10, ReadsMore

LEMMA ItemReads ==
    ASSUME text \in Seq(Lexicon), NEW e, NEW k \in Int, ReadsFrom(e, ItemPairs, k + 1)
    PROVE  ReadsFrom(item(e), SomeItems, k)
<1> DEFINE n == match_number   b == bool_literal_grammar   i == match_identifier
           a == strict_member_accessor_grammar   p == parenthesised(operand(e))
           one == level_1_grammar   two == level_2_grammar
<1>1. /\ ReadsFrom(((n | b) | a) | i, SomeItems, k)
      /\ ReadsFrom(one, SomeItems, k) /\ ReadsFrom(two, SomeItems, k)
  BY OneItemReads, ReadsAnywhere
<1>2. ReadsFrom(p, SomeItems, k)
  BY ParenthesesRead
<1>3. item(e) = ((n | b | a | i | p) | one | two)
  BY DEF item, base_grammar
<1> HIDE DEF n, b, a, i, p, one, two
<1>4. ReadsFrom(n | b | a | i | p, SomeItems, k)
  BY <1>1, <1>2, ReadsEither
<1> DEFINE base == n | b | a | i | p
<1>5. item(e) = (base | one | two)
  BY <1>3
<1>6. ReadsFrom(base, SomeItems, k)
  BY <1>4
<1> HIDE DEF base
<1> QED
  BY <1>1, <1>5, <1>6, ReadsEither

LEMMA ExpressionRulesRead ==
    ASSUME text \in Seq(Lexicon)
    PROVE  Reads(expression_rules, ItemPairs)
<1> DEFINE e == expression_rules
           N == Len(text) + 1
           S == {n \in Nat : ReadsFrom(e, ItemPairs, (N + 1) - n)}
<1>0. N \in Nat /\ Positions = 1..N
  BY TextFacts
<1>1. \A i \in Positions : e[i] = ((item(e) ++ e) | nothing)[i]
  BY ExpressionEquation
<1> HIDE DEF e, N
<1>2. 0 \in S
  <2>1. \A i \in Positions : ~((N + 1) - 0 <= i)
    BY <1>0
  <2> QED
    BY <2>1 DEF ReadsFrom
<1>3. ASSUME NEW n \in Nat, n \in S PROVE n + 1 \in S
  <2> DEFINE k == (N + 1) - (n + 1)
  <2>1. k \in Int /\ k + 1 = (N + 1) - n
    BY <1>0
  <2>2. ReadsFrom(e, ItemPairs, k + 1)
    BY <1>3, <2>1
  <2>3. k = (N + 1) - (n + 1)
    OBVIOUS
  <2> HIDE DEF k
  <2>4. ReadsFrom(item(e), SomeItems, k)
    BY <2>1, <2>2, ItemReads
  <2>5. ReadsFrom(item(e) ++ e, Then(SomeItems, ItemPairs), k)
    <3> DEFINE r == item(e)   h == k + 1   P == SomeItems   Q == ItemPairs
    <3>1. /\ k \in Int /\ h \in Int /\ h = k + 1 /\ ReadsFrom(r, P, k) /\ ReadsFrom(e, Q, h)
          /\ \A p \in P : p[2] # << >>
      BY <2>1, <2>2, <2>4 DEF SomeItems
    <3> HIDE DEF r, h, P, Q
    <3>2. ReadsFrom(r ++ e, Then(P, Q), k)
      BY <3>1, ReadsRow
    <3> QED
      BY <3>2 DEF r, P, Q
  <2>6. Then(SomeItems, ItemPairs) \subseteq ItemPairs
    <3>1. Then(SomeItems, ItemPairs) \subseteq Then(ItemPairs, ItemPairs)
      BY DEF Then, SomeItems
    <3> QED
      BY <3>1, MoreItems
  <2>7. ReadsFrom(nothing, ItemPairs, k)
    <3> DEFINE E == {<<<< >>, << >>>>}
    <3>1. <<<< >>, << >>>> \in ItemPairs
      <4> DEFINE x == << >>
      <4>1. x \in Seq(Items) /\ Balanced(x) /\ Written(x, ItemTexts) = x
        BY EmptySeq, BalancedNone, ItemTextType, WrittenOne
      <4> HIDE DEF x
      <4>2. <<x, x>> \in ItemPairs
        BY <4>1, InItemPairs
      <4> QED
        BY <4>2 DEF x
    <3>2. E \subseteq ItemPairs
      BY <3>1
    <3>3. Reads(nothing, E)
      BY ReadsNothing
    <3> HIDE DEF E
    <3>4. Reads(nothing, ItemPairs)
      BY <3>2, <3>3, SubsetReads
    <3> QED
      BY <3>4, ReadsAnywhere
  <2>8. ReadsFrom((item(e) ++ e) | nothing, ItemPairs, k)
    <3> DEFINE t == item(e) ++ e
    <3> HIDE DEF t
    <3>1. ReadsFrom(t, ItemPairs, k)
      BY <2>5, <2>6, ReadsMore DEF t
    <3>2. ReadsFrom(t | nothing, ItemPairs, k)
      BY <2>7, <3>1, ReadsEither
    <3> QED
      BY <3>2 DEF t
  <2>9. ReadsFrom(e, ItemPairs, k)
    BY <1>1, <2>8 DEF ReadsFrom
  <2> QED
    BY <2>3, <2>9
<1>4. Nat \subseteq S
  <2> HIDE DEF S
  <2> QED
    BY <1>2, <1>3, InductiveSet
<1>5. ReadsFrom(e, ItemPairs, (N + 1) - N)
  BY <1>0, <1>4
<1>6. (N + 1) - N = 1
  BY <1>0
<1> QED
  BY <1>5, <1>6 DEF Reads, e

----------------------------------------------------------------------------
(***************************************************************************)
(* Preconditions and assignments.                                          *)
(***************************************************************************)
LEMMA LexemesOfItems ==
    ASSUME NEW xs \in Seq(Items)
    PROVE  Lexemes(xs, ItemText) = Written(xs, ItemTexts)
<1>1. \A k \in DOMAIN xs : ItemText(xs[k]) = ItemTexts[xs[k]]
  <2>1. \A k \in DOMAIN xs : xs[k] \in Items
    BY LenProperties, ElementOfSeq
  <2> QED
    BY <2>1, ItemTextType
<1>2. [k \in DOMAIN xs |-> ItemText(xs[k])] = [k \in DOMAIN xs |-> ItemTexts[xs[k]]]
  BY <1>1
<1> QED
  BY <1>2 DEF Lexemes, Written

ExpressionTexts == [e \in Expressions |-> Lexemes(e.parts, ItemText)]

LEMMA ExpressionReads ==
    ASSUME text \in Seq(Lexicon)
    PROVE  Reads(expression_grammar, OneOf(Expressions, ExpressionTexts))
<1>1. Reads(expression_rules, ItemPairs)
  BY ExpressionRulesRead
<1>2. ASSUME NEW p \in ItemPairs
      PROVE  /\ Node("expression", p[1]) \in Expressions
             /\ p[2] = ExpressionTexts[Node("expression", p[1])]
  <2>1. p[1] \in Seq(Items) /\ Balanced(p[1]) /\ p[2] = Written(p[1], ItemTexts)
    BY InItemPairs
  <2> DEFINE n == Node("expression", p[1])
  <2>2. n \in Expressions
    <3>1. p[1] \in {items \in Seq(Items) : Balanced(items)}
      BY <2>1
    <3> QED
      BY <3>1, InNodes DEF Expressions
  <2>3. n.parts = p[1]
    BY Shapes
  <2> HIDE DEF n
  <2>4. ExpressionTexts[n] = Lexemes(p[1], ItemText)
    BY <2>2, <2>3 DEF ExpressionTexts
  <2>5. ExpressionTexts[n] = p[2]
    BY <2>1, <2>4, LexemesOfItems
  <2> QED
    BY <2>2, <2>5 DEF n
<1> QED
  BY <1>1, <1>2, WholeReads DEF expression_grammar

LEMMA ExpressionTextType ==
    /\ ExpressionTexts \in TextsOf(Expressions)
    /\ \A e \in Expressions : ExpressionTexts[e] = Lexemes(e.parts, ItemText)
<1>1. ASSUME NEW e \in Expressions PROVE Lexemes(e.parts, ItemText) \in Seq(Lexicon)
  <2>1. e.parts \in Seq(Items)
    BY InNodes DEF Expressions
  <2>2. Written(e.parts, ItemTexts) \in Seq(Lexicon)
    BY <2>1, ItemTextType, WrittenFacts
  <2> QED
    BY <2>1, <2>2, LexemesOfItems
<1> QED
  BY <1>1 DEF ExpressionTexts, TextsOf

Operations == {"EQUAL", "DIFFERENT", "GREATER", "GREATER_EQUAL", "LESS", "LESS_EQUAL"}
ComparisonPairs == {<<<<Leaf("operator", op)>>, Symbols[op]>> : op \in Operations}

LEMMA CompareOperator ==
    /\ compare_operator[<<"=", "=">>] = "EQUAL" /\ compare_operator[<<"!", "=">>] = "DIFFERENT"
    /\ compare_operator[<<">">>] = "GREATER" /\ compare_operator[<<">", "=">>] = "GREATER_EQUAL"
    /\ compare_operator[<<"<">>] = "LESS" /\ compare_operator[<<"<", "=">>] = "LESS_EQUAL"
<1>1. \A a, b, c : <<a>> # <<b, c>>
  <2> TAKE a, b, c
  <2>1. Len(<<a>>) # Len(<<b, c>>)
    OBVIOUS
  <2> QED
    BY <2>1
<1>2. \A a, b, c, d : <<a, b>> = <<c, d>> => a = c /\ b = d
  OBVIOUS
<1>3. \A a, b : <<a>> = <<b>> => a = b
  OBVIOUS
<1> QED
  BY <1>1, <1>2, <1>3 DEF compare_operator

LEMMA ConditionReads ==
    ASSUME text \in Seq(Lexicon)
    PROVE  Reads(condition_grammar, ComparisonPairs)
<1>2. ASSUME NEW op \in Operations, NEW lexemes, lexemes = Symbols[op], compare_operator[lexemes] = op,
             Reads(match_operand(lexemes, Leaf("operator", op)), {<<<<Leaf("operator", op)>>, lexemes>>})
      PROVE  ReadsFrom(condition_operand(lexemes), ComparisonPairs, 1)
  <2> DEFINE P == {<<<<Leaf("operator", op)>>, lexemes>>}
  <2>1. P \subseteq ComparisonPairs
    BY <1>2 DEF ComparisonPairs
  <2>2. condition_operand(lexemes) = match_operand(lexemes, Leaf("operator", op))
    BY <1>2 DEF condition_operand
  <2>3. Reads(condition_operand(lexemes), P)
    BY <1>2, <2>2
  <2> HIDE DEF P
  <2> QED
    BY <2>1, <2>3, SubsetReads DEF Reads
<1>3. \A a, leaf : Reads(match_operand(<<a>>, leaf), {<<<<leaf>>, <<a>>>>})
  BY ReadsLexeme DEF match_operand
<1>4. \A a, b, leaf : Reads(match_operand(<<a, b>>, leaf), {<<<<leaf>>, <<a, b>>>>})
  BY ReadsTwoLexemes DEF match_operand
<1>5. /\ ReadsFrom(condition_operand(<<">">>), ComparisonPairs, 1)
      /\ ReadsFrom(condition_operand(<<"<">>), ComparisonPairs, 1)
  <2>1. "GREATER" \in Operations /\ "LESS" \in Operations
    BY DEF Operations
  <2> QED
    BY CompareOperator, <1>2, <1>3, <2>1, SymbolsInLexicon
<1>6. /\ ReadsFrom(condition_operand(<<">", "=">>), ComparisonPairs, 1)
      /\ ReadsFrom(condition_operand(<<"<", "=">>), ComparisonPairs, 1)
      /\ ReadsFrom(condition_operand(<<"=", "=">>), ComparisonPairs, 1)
      /\ ReadsFrom(condition_operand(<<"!", "=">>), ComparisonPairs, 1)
  <2>1. /\ "GREATER_EQUAL" \in Operations /\ "LESS_EQUAL" \in Operations
        /\ "EQUAL" \in Operations /\ "DIFFERENT" \in Operations
    BY DEF Operations
  <2> QED
    BY CompareOperator, <1>2, <1>4, <2>1, SymbolsInLexicon
<1> DEFINE a == condition_operand(<<">", "=">>)   b == condition_operand(<<">">>)
           c == condition_operand(<<"<", "=">>)   d == condition_operand(<<"<">>)
           e == condition_operand(<<"=", "=">>)   f == condition_operand(<<"!", "=">>)
<1>7. condition_grammar = (a | b | c | d | e | f)
  BY DEF condition_grammar
<1>8. /\ ReadsFrom(a, ComparisonPairs, 1) /\ ReadsFrom(b, ComparisonPairs, 1)
      /\ ReadsFrom(c, ComparisonPairs, 1) /\ ReadsFrom(d, ComparisonPairs, 1)
      /\ ReadsFrom(e, ComparisonPairs, 1) /\ ReadsFrom(f, ComparisonPairs, 1)
  BY <1>5, <1>6
<1> HIDE DEF a, b, c, d, e, f
<1>9. ReadsFrom(a | b | c | d | e | f, ComparisonPairs, 1)
  <2> DEFINE l == a | b | c
  <2>1. ReadsFrom(l, ComparisonPairs, 1)
    BY <1>8, ReadsEither
  <2> HIDE DEF l
  <2>2. ReadsFrom(l | d | e | f, ComparisonPairs, 1)
    BY <1>8, <2>1, ReadsEither
  <2> QED
    BY <2>2 DEF l
<1> QED
  BY <1>7, <1>9 DEF Reads

LEMMA PreconditionShape ==
    /\ \A a \in Accessors, op \in Operations, n \in Numerals :
          LET p == Node("precondition", <<a, Leaf("operator", op), Leaf("number", n)>>)
          IN  /\ p \in Preconditions
              /\ PreconditionText(p) = Join(Join(AccessorText(a), Symbols[op]), <<n, ";">>)
    /\ \A p \in Preconditions : \E a \in Accessors, op \in Operations, n \in Numerals :
          p = Node("precondition", <<a, Leaf("operator", op), Leaf("number", n)>>)
<1>1. Comparisons = {Leaf("operator", op) : op \in Operations}
  BY DEF Comparisons, Operations, Leaves
<1>2. Numbers = {Leaf("number", n) : n \in Numerals}
  BY DEF Numbers, Leaves
<1>3. ASSUME NEW a \in Accessors, NEW op \in Operations, NEW n \in Numerals
      PROVE  LET p == Node("precondition", <<a, Leaf("operator", op), Leaf("number", n)>>)
             IN  /\ p \in Preconditions
                 /\ PreconditionText(p) = Join(Join(AccessorText(a), Symbols[op]), <<n, ";">>)
  <2> DEFINE c == Leaf("operator", op)   m == Leaf("number", n)   t == <<a, c, m>>
  <2>1. c \in Comparisons /\ m \in Numbers /\ c.lexeme = op /\ m.lexeme = n
    BY <1>1, <1>2, Shapes
  <2> HIDE DEF c, m
  <2>2. t \in Accessors \X Comparisons \X Numbers /\ t[1] = a /\ t[2] = c /\ t[3] = m
    BY <2>1
  <2> HIDE DEF t
  <2> DEFINE p == Node("precondition", t)
  <2>3. p \in Preconditions /\ p.parts = t
    BY <2>2, InNodes, Shapes DEF Preconditions
  <2> HIDE DEF p
  <2>4. PreconditionText(p) = AccessorText(a) \o Symbols[op] \o <<n, ";">>
    BY <2>1, <2>2, <2>3 DEF PreconditionText
  <2> QED
    BY <2>3, <2>4 DEF Join, p, t, c, m
<1>4. ASSUME NEW p \in Preconditions
      PROVE  \E a \in Accessors, op \in Operations, n \in Numerals :
                p = Node("precondition", <<a, Leaf("operator", op), Leaf("number", n)>>)
  <2>1. p.parts \in Accessors \X Comparisons \X Numbers /\ p = Node("precondition", p.parts)
    BY InNodes DEF Preconditions
  <2>2. PICK a \in Accessors, c \in Comparisons, n \in Numbers : p.parts = <<a, c, n>>
    BY <2>1
  <2> QED
    BY <1>1, <1>2, <2>1, <2>2
<1> QED
  BY <1>3, <1>4

LEMMA PreconditionTextType ==
    /\ PreconditionTexts \in TextsOf(Preconditions)
    /\ \A p \in Preconditions : PreconditionTexts[p] = PreconditionText(p) /\ PreconditionText(p) # << >>
<1>1. ASSUME NEW p \in Preconditions
      PROVE  PreconditionText(p) \in Seq(Lexicon) /\ PreconditionText(p) # << >>
  <2>1. PICK a \in Accessors, op \in Operations, n \in Numerals :
           p = Node("precondition", <<a, Leaf("operator", op), Leaf("number", n)>>)
    BY PreconditionShape
  <2>2. PreconditionText(p) = Join(Join(AccessorText(a), Symbols[op]), <<n, ";">>)
    BY <2>1, PreconditionShape
  <2> DEFINE x == AccessorText(a)   y == Symbols[op]   z == <<n, ";">>
  <2>3. x \in Seq(Lexicon) /\ x # << >> /\ y \in Seq(Lexicon)
    BY AccessorTextType, SymbolsInLexicon DEF Operations
  <2>4. z \in Seq(Lexicon)
    <3>1. n \in Lexicon /\ ";" \in Lexicon
      BY SymbolsInLexicon
    <3> QED
      BY <3>1, PairInLexicon
  <2> HIDE DEF x, y, z
  <2>5. Join(x, y) \in Seq(Lexicon) /\ Join(x, y) # << >>
    BY <2>3, JoinFacts
  <2>6. Join(Join(x, y), z) \in Seq(Lexicon) /\ Join(Join(x, y), z) # << >>
    BY <2>4, <2>5, JoinFacts
  <2> QED
    BY <2>2, <2>6 DEF x, y, z
<1> QED
  BY <1>1 DEF PreconditionTexts, TextsOf

LEMMA EndReads ==
    ASSUME text \in Seq(Lexicon)
    PROVE  Reads(semicol, {<<<< >>, <<";">>>>})
BY StringReads DEF semicol

LEMMA PreconditionReads ==
    ASSUME text \in Seq(Lexicon)
    PROVE  Reads(precondition_statement, OneOf(Preconditions, PreconditionTexts))
<1> DEFINE A == OneOf(Accessors, AccessorTexts)   C == ComparisonPairs   N == NumberPairs
           E == {<<<< >>, <<";">>>>}
           a == member_accessor_grammar   c == condition_grammar   n == match_number   e == semicol
           P == Then(Then(Then(A, C), N), E)
<1>1. Reads(a, A) /\ Reads(c, C) /\ Reads(n, N) /\ Reads(e, E)
  BY AccessorReads, ConditionReads, NameReads, EndReads
<1>2. precondition_statement = match_production("precondition", ((a ++ c) ++ n) ++ e)
  BY DEF precondition_statement
<1>3. \A p \in A : \E x \in Accessors : p[1] = <<x>> /\ p[2] = AccessorText(x)
  BY AccessorTextType DEF OneOf
<1>4. \A p \in C : \E op \in Operations : p[1] = <<Leaf("operator", op)>> /\ p[2] = Symbols[op]
  BY DEF ComparisonPairs
<1>5. \A p \in N : \E m \in Numerals : p[1] = <<Leaf("number", m)>> /\ p[2] = <<m>>
  BY DEF NumberPairs
<1>6. \A p \in E : p[1] = << >> /\ p[2] = <<";">>
  BY OnlyPair
<1> HIDE DEF A, C, N, E, a, c, n, e
<1>7. Reads(((a ++ c) ++ n) ++ e, P)
  <2>1. Reads(a ++ c, Then(A, C))
    BY <1>1, RowReads
  <2> DEFINE r == a ++ c
  <2> HIDE DEF r
  <2>2. Reads(r ++ n, Then(Then(A, C), N))
    BY <1>1, <2>1, RowReads DEF r
  <2> DEFINE s == r ++ n
  <2> HIDE DEF s
  <2>3. Reads(s ++ e, P)
    BY <1>1, <2>2, RowReads DEF s
  <2> QED
    BY <2>3 DEF r, s
<1>8. ASSUME NEW p \in P
      PROVE  /\ Node("precondition", p[1]) \in Preconditions
             /\ p[2] = PreconditionTexts[Node("precondition", p[1])]
  <2>1. PICK q \in Then(Then(A, C), N), t \in E : p[1] = Join(q[1], t[1]) /\ p[2] = Join(q[2], t[2])
    BY ThenParts
  <2>2. PICK r \in Then(A, C), v \in N : q[1] = Join(r[1], v[1]) /\ q[2] = Join(r[2], v[2])
    BY ThenParts
  <2>3. PICK s \in A, u \in C : r[1] = Join(s[1], u[1]) /\ r[2] = Join(s[2], u[2])
    BY ThenParts
  <2>4. PICK x \in Accessors : s[1] = <<x>> /\ s[2] = AccessorText(x)
    BY <1>3
  <2>5. PICK op \in Operations : u[1] = <<Leaf("operator", op)>> /\ u[2] = Symbols[op]
    BY <1>4
  <2>6. PICK m \in Numerals : v[1] = <<Leaf("number", m)>> /\ v[2] = <<m>>
    BY <1>5
  <2>7. t[1] = << >> /\ t[2] = <<";">>
    BY <1>6
  <2> DEFINE y == Leaf("operator", op)   z == Leaf("number", m)
  <2>8. p[1] = <<x, y, z>>
    <3>1. /\ s[1] = <<x>> /\ u[1] = <<y>> /\ v[1] = <<z>> /\ t[1] = << >>
      BY <2>4, <2>5, <2>6, <2>7
    <3> HIDE DEF y, z
    <3>2. r[1] = <<x, y>>
      BY <2>3, <3>1, JoinTuples
    <3>3. q[1] = <<x, y, z>>
      BY <2>2, <3>1, <3>2, JoinTuples
    <3> QED
      BY <2>1, <3>1, <3>3, JoinTuples
  <2>9. p[2] = Join(Join(AccessorText(x), Symbols[op]), <<m, ";">>)
    <3> DEFINE f == AccessorText(x)   g == Symbols[op]   h == <<m>>   i == <<";">>
    <3>1. f \in Seq(Lexicon) /\ g \in Seq(Lexicon) /\ h \in Seq(Lexicon) /\ i \in Seq(Lexicon)
      BY AccessorTextType, SymbolsInLexicon DEF Operations
    <3>2. p[2] = Join(Join(Join(f, g), h), i)
      BY <2>1, <2>2, <2>3, <2>4, <2>5, <2>6, <2>7
    <3>3. Join(h, i) = <<m, ";">>
      BY JoinTuples
    <3> HIDE DEF f, g, h, i
    <3>4. Join(Join(Join(f, g), h), i) = Join(Join(f, g), Join(h, i))
      BY <3>1, JoinFacts
    <3> QED
      BY <3>2, <3>3, <3>4 DEF f, g
  <2> DEFINE w == Node("precondition", <<x, y, z>>)
  <2>10. w \in Preconditions /\ PreconditionText(w) = p[2]
    BY <2>9, PreconditionShape
  <2>11. w = Node("precondition", p[1])
    BY <2>8
  <2> HIDE DEF w
  <2> QED
    BY <2>10, <2>11, PreconditionTextType
<1> DEFINE row == ((a ++ c) ++ n) ++ e
<1>9. Reads(row, P)
  BY <1>7
<1> HIDE DEF P, row
<1>10. Reads(match_production("precondition", row), OneOf(Preconditions, PreconditionTexts))
  BY <1>8, <1>9, WholeReads
<1> QED
  BY <1>2, <1>10 DEF row

LEMMA AssignmentShape ==
    /\ \A a \in Accessors, e \in Expressions :
          LET x == Node("assignment", <<a, e>>)
          IN  /\ x \in Assignments
              /\ AssignmentText(x) =
                    Join(Join(Join(AccessorText(a), <<"=">>), ExpressionTexts[e]), <<";">>)
    /\ \A x \in Assignments : \E a \in Accessors, e \in Expressions : x = Node("assignment", <<a, e>>)
<1>1. ASSUME NEW a \in Accessors, NEW e \in Expressions
      PROVE  LET x == Node("assignment", <<a, e>>)
             IN  /\ x \in Assignments
                 /\ AssignmentText(x) =
                       Join(Join(Join(AccessorText(a), <<"=">>), ExpressionTexts[e]), <<";">>)
  <2> DEFINE t == <<a, e>>
  <2>1. t \in Accessors \X Expressions /\ t[1] = a /\ t[2] = e
    OBVIOUS
  <2> HIDE DEF t
  <2> DEFINE x == Node("assignment", t)
  <2>2. x \in Assignments /\ x.parts = t
    BY <2>1, InNodes, Shapes DEF Assignments
  <2> HIDE DEF x
  <2>3. AssignmentText(x) = AccessorText(a) \o <<"=">> \o Lexemes(e.parts, ItemText) \o <<";">>
    BY <2>1, <2>2 DEF AssignmentText
  <2>4. ExpressionTexts[e] = Lexemes(e.parts, ItemText)
    BY ExpressionTextType
  <2> QED
    BY <2>2, <2>3, <2>4 DEF Join, x, t
<1>2. ASSUME NEW x \in Assignments
      PROVE  \E a \in Accessors, e \in Expressions : x = Node("assignment", <<a, e>>)
  <2>1. x.parts \in Accessors \X Expressions /\ x = Node("assignment", x.parts)
    BY InNodes DEF Assignments
  <2>2. PICK a \in Accessors, e \in Expressions : x.parts = <<a, e>>
    BY <2>1
  <2> QED
    BY <2>1, <2>2
<1> QED
  BY <1>1, <1>2

LEMMA AssignmentTextType ==
    /\ AssignmentTexts \in TextsOf(Assignments)
    /\ \A x \in Assignments : AssignmentTexts[x] = AssignmentText(x) /\ AssignmentText(x) # << >>
<1>1. ASSUME NEW x \in Assignments
      PROVE  AssignmentText(x) \in Seq(Lexicon) /\ AssignmentText(x) # << >>
  <2>1. PICK a \in Accessors, e \in Expressions : x = Node("assignment", <<a, e>>)
    BY AssignmentShape
  <2>2. AssignmentText(x) = Join(Join(Join(AccessorText(a), <<"=">>), ExpressionTexts[e]), <<";">>)
    BY <2>1, AssignmentShape
  <2> DEFINE f == AccessorText(a)   g == <<"=">>   h == ExpressionTexts[e]   i == <<";">>
  <2>3. f \in Seq(Lexicon) /\ f # << >> /\ g \in Seq(Lexicon) /\ i \in Seq(Lexicon)
    BY AccessorTextType, SymbolsInLexicon
  <2>4. h \in Seq(Lexicon)
    BY ExpressionTextType DEF TextsOf
  <2> HIDE DEF f, g, h, i
  <2>5. Join(f, g) \in Seq(Lexicon) /\ Join(f, g) # << >>
    BY <2>3, JoinFacts
  <2>6. Join(Join(f, g), h) \in Seq(Lexicon) /\ Join(Join(f, g), h) # << >>
    BY <2>4, <2>5, JoinFacts
  <2>7. Join(Join(Join(f, g), h), i) \in Seq(Lexicon) /\ Join(Join(Join(f, g), h), i) # << >>
    BY <2>3, <2>6, JoinFacts
  <2> QED
    BY <2>2, <2>7 DEF f, g, h, i
<1> QED
  BY <1>1 DEF AssignmentTexts, TextsOf

LEMMA AssignmentReads ==
    ASSUME text \in Seq(Lexicon)
    PROVE  Reads(assignment_statement, OneOf(Assignments, AssignmentTexts))
<1> DEFINE A == OneOf(Accessors, AccessorTexts)   C == {<<<< >>, <<"=">>>>}
           N == OneOf(Expressions, ExpressionTexts)   E == {<<<< >>, <<";">>>>}
           a == member_accessor_grammar   c == match_string(<<"=">>)   n == expression_grammar
           e == semicol
           P == Then(Then(Then(A, C), N), E)
<1>1. Reads(a, A) /\ Reads(c, C) /\ Reads(n, N) /\ Reads(e, E)
  BY AccessorReads, StringReads, ExpressionReads, EndReads
<1>2. assignment_statement = match_production("assignment", ((a ++ c) ++ n) ++ e)
  BY DEF assignment_statement
<1>3. \A p \in A : \E x \in Accessors : p[1] = <<x>> /\ p[2] = AccessorText(x)
  BY AccessorTextType DEF OneOf
<1>4. \A p \in C : p[1] = << >> /\ p[2] = <<"=">>
  BY OnlyPair
<1>5. \A p \in N : \E m \in Expressions : p[1] = <<m>> /\ p[2] = ExpressionTexts[m]
  BY DEF OneOf
<1>6. \A p \in E : p[1] = << >> /\ p[2] = <<";">>
  BY OnlyPair
<1> HIDE DEF A, C, N, E, a, c, n, e
<1>7. Reads(((a ++ c) ++ n) ++ e, P)
  <2>1. Reads(a ++ c, Then(A, C))
    BY <1>1, RowReads
  <2> DEFINE r == a ++ c
  <2> HIDE DEF r
  <2>2. Reads(r ++ n, Then(Then(A, C), N))
    BY <1>1, <2>1, RowReads DEF r
  <2> DEFINE s == r ++ n
  <2> HIDE DEF s
  <2>3. Reads(s ++ e, P)
    BY <1>1, <2>2, RowReads DEF s
  <2> QED
    BY <2>3 DEF r, s
<1>8. ASSUME NEW p \in P
      PROVE  /\ Node("assignment", p[1]) \in Assignments
             /\ p[2] = AssignmentTexts[Node("assignment", p[1])]
  <2>1. PICK q \in Then(Then(A, C), N), t \in E : p[1] = Join(q[1], t[1]) /\ p[2] = Join(q[2], t[2])
    BY ThenParts
  <2>2. PICK r \in Then(A, C), v \in N : q[1] = Join(r[1], v[1]) /\ q[2] = Join(r[2], v[2])
    BY ThenParts
  <2>3. PICK s \in A, u \in C : r[1] = Join(s[1], u[1]) /\ r[2] = Join(s[2], u[2])
    BY ThenParts
  <2>4. PICK x \in Accessors : s[1] = <<x>> /\ s[2] = AccessorText(x)
    BY <1>3
  <2>5. u[1] = << >> /\ u[2] = <<"=">>
    BY <1>4
  <2>6. PICK m \in Expressions : v[1] = <<m>> /\ v[2] = ExpressionTexts[m]
    BY <1>5
  <2>7. t[1] = << >> /\ t[2] = <<";">>
    BY <1>6
  <2>8. p[1] = <<x, m>>
    <3>1. r[1] = <<x>>
      BY <2>3, <2>4, <2>5, JoinTuples
    <3>2. q[1] = <<x, m>>
      BY <2>2, <2>6, <3>1, JoinTuples
    <3> QED
      BY <2>1, <2>7, <3>2, JoinTuples
  <2>9. p[2] = Join(Join(Join(AccessorText(x), <<"=">>), ExpressionTexts[m]), <<";">>)
    BY <2>1, <2>2, <2>3, <2>4, <2>5, <2>6, <2>7
  <2> DEFINE w == Node("assignment", <<x, m>>)
  <2>10. w \in Assignments /\ AssignmentText(w) = p[2]
    BY <2>9, AssignmentShape
  <2>11. w = Node("assignment", p[1])
    BY <2>8
  <2> HIDE DEF w
  <2> QED
    BY <2>10, <2>11, AssignmentTextType
<1> DEFINE row == ((a ++ c) ++ n) ++ e
<1>9. Reads(row, P)
  BY <1>7
<1> HIDE DEF P, row
<1>10. Reads(match_production("assignment", row), OneOf(Assignments, AssignmentTexts))
  BY <1>8, <1>9, WholeReads
<1> QED
  BY <1>2, <1>10 DEF row

----------------------------------------------------------------------------
(***************************************************************************)
(* Capabilities.                                                           *)
(***************************************************************************)
Braced(P) == {<<p[1], Join(Join(<<"{">>, p[2]), <<"}">>)>> : p \in P}

LEMMA BracedParts ==
    ASSUME NEW P, NEW x \in Braced(P)
    PROVE  \E p \in P : x[1] = p[1] /\ x[2] = Join(Join(<<"{">>, p[2]), <<"}">>)
<1>1. PICK p \in P : x = <<p[1], Join(Join(<<"{">>, p[2]), <<"}">>)>>
  BY DEF Braced
<1> DEFINE u == Join(Join(<<"{">>, p[2]), <<"}">>)   v == p[1]
<1>2. x = <<v, u>>
  BY <1>1
<1> HIDE DEF u, v
<1>3. x[1] = v /\ x[2] = u
  BY <1>2
<1> QED
  BY <1>3 DEF u, v

LEMMA BracketReads ==
    ASSUME text \in Seq(Lexicon), NEW r, NEW P, NEW S, Reads(r, P), \A p \in P : p[1] \in Seq(S)
    PROVE  Reads(bracketed(r), Braced(P))
<1> DEFINE A == {<<<< >>, <<"{">>>>}   B == {<<<< >>, <<"}">>>>}
           o == match_string(<<"{">>)   c == match_string(<<"}">>)
<1>1. Reads(o, A) /\ Reads(c, B)
  BY StringReads
<1>2. bracketed(r) = (o ++ r) ++ c
  BY DEF bracketed
<1>3. \A p \in A : p[1] = << >> /\ p[2] = <<"{">>
  BY OnlyPair
<1>4. \A p \in B : p[1] = << >> /\ p[2] = <<"}">>
  BY OnlyPair
<1> HIDE DEF A, B, o, c
<1>5. Reads((o ++ r) ++ c, Then(Then(A, P), B))
  <2>1. Reads(o ++ r, Then(A, P))
    BY <1>1, RowReads
  <2> DEFINE t == o ++ r
  <2> HIDE DEF t
  <2>2. Reads(t ++ c, Then(Then(A, P), B))
    BY <1>1, <2>1, RowReads DEF t
  <2> QED
    BY <2>2 DEF t
<1>6. Then(Then(A, P), B) \subseteq Braced(P)
  <2> SUFFICES ASSUME NEW x \in Then(Then(A, P), B) PROVE x \in Braced(P)
    OBVIOUS
  <2>1. PICK y \in Then(A, P), b \in B : x[1] = Join(y[1], b[1]) /\ x[2] = Join(y[2], b[2])
    BY ThenParts
  <2>2. PICK a \in A, p \in P : y[1] = Join(a[1], p[1]) /\ y[2] = Join(a[2], p[2])
    BY ThenParts
  <2>3. x[1] = Join(Join(<< >>, p[1]), << >>)
    BY <1>3, <1>4, <2>1, <2>2
  <2>4. x[2] = Join(Join(<<"{">>, p[2]), <<"}">>)
    BY <1>3, <1>4, <2>1, <2>2
  <2>5. p[1] \in Seq(S)
    OBVIOUS
  <2>6. Join(Join(<< >>, p[1]), << >>) = p[1]
    BY <2>5, ConcatEmptySeq DEF Join
  <2>7. x = <<x[1], x[2]>>
    BY DEF Then
  <2> DEFINE u == Join(Join(<<"{">>, p[2]), <<"}">>)   v == p[1]
  <2>8. x = <<v, u>>
    <3>1. x[1] = v /\ x[2] = u
      BY <2>3, <2>4, <2>6
    <3> HIDE DEF u, v
    <3> QED
      BY <2>7, <3>1
  <2> QED
    BY <2>8 DEF Braced
<1> QED
  BY <1>2, <1>5, <1>6, SubsetReads

Block(keyword, xs, T) == Join(<<keyword>>, Join(Join(<<"{">>, Written(xs, T)), <<"}">>))
Blocks(is, keyword, S, T) == {<<<<Node(is, xs)>>, Block(keyword, xs, T)>> : xs \in Seq(S)}

LEMMA BlockReads ==
    ASSUME text \in Seq(Lexicon), NEW r, NEW S, NEW T \in TextsOf(S), Reads(r, OneOf(S, T)),
           \A x \in S : T[x] # << >>, NEW is, NEW keyword
    PROVE  Reads(match_production(is, match_keyword(keyword) ++ bracketed(list(r))),
                 Blocks(is, keyword, S, T))
<1> DEFINE K == {<<<< >>, <<keyword>>>>}   M == ManyOf(S, T)   L == list(r)   B == Braced(M)
           k == match_keyword(keyword)   b == bracketed(L)
<1>1. Reads(k, K)
  BY StringReads DEF match_keyword
<1>2. Reads(L, M)
  BY ReadsList
<1>3. \A p \in M : p[1] \in Seq(S) /\ p[2] = Written(p[1], T)
  BY DEF ManyOf
<1>4. \A p \in K : p[1] = << >> /\ p[2] = <<keyword>>
  BY OnlyPair
<1> HIDE DEF K, M, L
<1>5. Reads(b, B)
  BY <1>2, <1>3, BracketReads
<1> HIDE DEF k, b, B
<1>6. Reads(k ++ b, Then(K, B))
  BY <1>1, <1>5, RowReads
<1>7. Reads(match_production(is, k ++ b), Whole(is, Then(K, B)))
  BY <1>6, ReadsProduction DEF Reads
<1>8. Whole(is, Then(K, B)) \subseteq Blocks(is, keyword, S, T)
  <2> SUFFICES ASSUME NEW x \in Whole(is, Then(K, B)) PROVE x \in Blocks(is, keyword, S, T)
    OBVIOUS
  <2>1. PICK p \in Then(K, B) : x = <<<<Node(is, p[1])>>, p[2]>>
    BY DEF Whole
  <2>2. PICK a \in K, q \in B : p[1] = Join(a[1], q[1]) /\ p[2] = Join(a[2], q[2])
    BY ThenParts
  <2>3. PICK m \in M : q[1] = m[1] /\ q[2] = Join(Join(<<"{">>, m[2]), <<"}">>)
    BY BracedParts DEF B
  <2> DEFINE xs == m[1]
  <2>4. xs \in Seq(S) /\ m[2] = Written(xs, T)
    BY <1>3
  <2>5. p[1] = xs
    <3>1. p[1] = Join(<< >>, xs)
      BY <1>4, <2>2, <2>3
    <3> HIDE DEF xs
    <3> QED
      BY <2>4, <3>1, ConcatEmptySeq DEF Join
  <2>6. p[2] = Block(keyword, xs, T)
    BY <1>4, <2>2, <2>3, <2>4 DEF Block
  <2> HIDE DEF xs
  <2> QED
    BY <2>1, <2>4, <2>5, <2>6 DEF Blocks
<1> QED
  BY <1>7, <1>8, SubsetReads DEF k, b, L

PrePairs == Blocks("pre", "pre", Preconditions, PreconditionTexts)
PostPairs == Blocks("post", "post", Assignments, AssignmentTexts)

LEMMA PrePostRead ==
    ASSUME text \in Seq(Lexicon)
    PROVE  Reads(capability_pre_statement, PrePairs) /\ Reads(capability_post_statement, PostPairs)
<1>1. Reads(capability_pre_statement, PrePairs)
  <2> DEFINE S == Preconditions   T == PreconditionTexts   r == precondition_statement
  <2>1. T \in TextsOf(S) /\ (\A x \in S : T[x] # << >>) /\ Reads(r, OneOf(S, T))
    BY PreconditionReads, PreconditionTextType
  <2> HIDE DEF S, T, r
  <2>2. Reads(match_production("pre", match_keyword("pre") ++ bracketed(list(r))), Blocks("pre", "pre", S, T))
    BY <2>1, BlockReads
  <2> QED
    BY <2>2 DEF S, T, r, PrePairs, capability_pre_statement
<1>2. Reads(capability_post_statement, PostPairs)
  <2> DEFINE S == Assignments   T == AssignmentTexts   r == assignment_statement
  <2>1. T \in TextsOf(S) /\ (\A x \in S : T[x] # << >>) /\ Reads(r, OneOf(S, T))
    BY AssignmentReads, AssignmentTextType
  <2> HIDE DEF S, T, r
  <2>2. Reads(match_production("post", match_keyword("post") ++ bracketed(list(r))), Blocks("post", "post", S, T))
    BY <2>1, BlockReads
  <2> QED
    BY <2>2 DEF S, T, r, PostPairs, capability_post_statement
<1> QED
  BY <1>1, <1>2

LEMMA LongTuples ==
    \A a, b, c, d, e : /\ Join(<<a, b, c>>, <<d>>) = <<a, b, c, d>>
                       /\ Join(<<a, b, c, d>>, <<e>>) = <<a, b, c, d, e>>
<1> TAKE a, b, c, d, e
<1> DEFINE S == {a, b, c, d, e}
           x == <<a, b, c>>   y == <<a, b, c, d>>   z == <<a, b, c, d, e>>
<1>1. /\ x \in Seq(S) /\ y \in Seq(S) /\ z \in Seq(S) /\ d \in S /\ e \in S
      /\ Len(x) = 3 /\ Len(y) = 4 /\ Len(z) = 5
      /\ x[1] = a /\ x[2] = b /\ x[3] = c
      /\ y[1] = a /\ y[2] = b /\ y[3] = c /\ y[4] = d /\ e \in S
      /\ z[1] = a /\ z[2] = b /\ z[3] = c /\ z[4] = d /\ z[5] = e
  OBVIOUS
<1> HIDE DEF x, y, z
<1>2. Append(x, d) = y
  <2>1. /\ Append(x, d) \in Seq(S) /\ Len(Append(x, d)) = 4
        /\ Append(x, d)[1] = a /\ Append(x, d)[2] = b /\ Append(x, d)[3] = c /\ Append(x, d)[4] = d
    <3> HIDE DEF S
    <3>1. x \in Seq(S) /\ d \in S
      BY <1>1
    <3>2. /\ Append(x, d) \in Seq(S) /\ Len(Append(x, d)) = Len(x) + 1
          /\ \A i \in 1..Len(x) : Append(x, d)[i] = x[i]
          /\ Append(x, d)[Len(x) + 1] = d
      BY ONLY <3>1, AppendProperties
    <3>3. Len(x) = 3 /\ x[1] = a /\ x[2] = b /\ x[3] = c
      BY <1>1
    <3> HIDE DEF x
    <3>4. 1 \in 1..3 /\ 2 \in 1..3 /\ 3 \in 1..3 /\ 3 + 1 = 4
      OBVIOUS
    <3> QED
      BY <3>2, <3>3, <3>4
  <2> QED
    BY <1>1, <2>1, SeqAsTuple
<1>3. Append(y, e) = z
  <2>1. /\ Append(y, e) \in Seq(S) /\ Len(Append(y, e)) = 5
        /\ Append(y, e)[1] = a /\ Append(y, e)[2] = b /\ Append(y, e)[3] = c /\ Append(y, e)[4] = d
        /\ Append(y, e)[5] = e
    <3> HIDE DEF S
    <3>1. y \in Seq(S) /\ e \in S
      BY <1>1
    <3>2. /\ Append(y, e) \in Seq(S) /\ Len(Append(y, e)) = Len(y) + 1
          /\ \A i \in 1..Len(y) : Append(y, e)[i] = y[i]
          /\ Append(y, e)[Len(y) + 1] = e
      BY ONLY <3>1, AppendProperties
    <3>3. Len(y) = 4 /\ y[1] = a /\ y[2] = b /\ y[3] = c /\ y[4] = d
      BY <1>1
    <3> HIDE DEF y
    <3>4. 1 \in 1..4 /\ 2 \in 1..4 /\ 3 \in 1..4 /\ 4 \in 1..4 /\ 4 + 1 = 5
      OBVIOUS
    <3> QED
      BY <3>2, <3>3, <3>4
  <2> QED
    BY <1>1, <2>1, SeqAsTuple
<1>4. Append(x, d) = x \o <<d>> /\ Append(y, e) = y \o <<e>>
  BY <1>1, AppendIsConcat
<1> QED
  BY <1>2, <1>3, <1>4 DEF x, y, z, Join

\* The lexemes of a capability, as they are read and as they are written.
LEMMA CapabilityGlue ==
    ASSUME NEW w \in Words, NEW X \in Seq(Lexicon), NEW Y \in Seq(Lexicon)
    PROVE  LET k == <<"capability">>   m == <<w>>   o == <<"{">>   c == <<"}">>
               p == <<"pre">>   q == <<"post">>   s == <<";">>
               pre == Join(p, Join(Join(o, X), c))
               post == Join(q, Join(Join(o, Y), c))
               before == Join(Join(Join(Join(k, m), o), p), o)
               between == Join(Join(c, q), o)
               after == Join(Join(c, c), s)
           IN  Join(Join(Join(k, m), Join(Join(o, Join(pre, post)), c)), s)
                 = Join(Join(Join(Join(before, X), between), Y), after)
<1> DEFINE k == <<"capability">>   m == <<w>>   o == <<"{">>   c == <<"}">>
           p == <<"pre">>   q == <<"post">>   s == <<";">>
<1>14. /\ k \in Seq(Lexicon) /\ m \in Seq(Lexicon) /\ o \in Seq(Lexicon) /\ c \in Seq(Lexicon)
      /\ p \in Seq(Lexicon) /\ q \in Seq(Lexicon) /\ s \in Seq(Lexicon)
  BY SymbolsInLexicon
<1> HIDE DEF k, m, o, c, p, q, s
<1> DEFINE pre == Join(p, Join(Join(o, X), c))
           post == Join(q, Join(Join(o, Y), c))
           before == Join(Join(Join(Join(k, m), o), p), o)
           between == Join(Join(c, q), o)
           after == Join(Join(c, c), s)
           left == Join(k, m)
           po == Join(p, o)   poX == Join(po, X)
           qo == Join(q, o)   qoY == Join(qo, Y)
<1>0. /\ \A x, y \in Seq(Lexicon) : Join(x, y) \in Seq(Lexicon)
      /\ \A x, y, z \in Seq(Lexicon) : Join(Join(x, y), z) = Join(x, Join(y, z))
  BY JoinFacts
<1>1. /\ left \in Seq(Lexicon) /\ po \in Seq(Lexicon) /\ poX \in Seq(Lexicon)
      /\ qo \in Seq(Lexicon) /\ qoY \in Seq(Lexicon)
  BY <1>14, <1>0
<1>2. pre = Join(poX, c)
  BY <1>14, <1>0
<1>3. post = Join(qoY, c)
  BY <1>14, <1>0
<1> DEFINE L == Join(left, o)   PX == Join(poX, c)   QY == Join(qoY, c)
<1>8. L \in Seq(Lexicon) /\ PX \in Seq(Lexicon) /\ QY \in Seq(Lexicon)
  BY <1>14, <1>0, <1>1
<1>4. before = Join(L, po)
  <2> HIDE DEF L
  <2>1. Join(Join(L, p), o) = Join(L, Join(p, o))
    BY <1>14, <1>0, <1>8, SMTT(60)
  <2> QED
    BY <2>1 DEF L
<1>5. Join(before, X) = Join(L, poX)
  <2> HIDE DEF before, L, po
  <2>1. Join(before, X) = Join(L, Join(po, X))
    BY <1>14, <1>0, <1>1, <1>4, <1>8, SMTT(60)
  <2> QED
    BY <2>1
<1>6. between = Join(c, qo)
  BY <1>14, <1>0
<1>7. Join(between, Y) = Join(c, qoY)
  <2> HIDE DEF between, qo
  <2>1. Join(between, Y) = Join(c, Join(qo, Y))
    BY <1>14, <1>0, <1>1, <1>6, SMTT(60)
  <2> QED
    BY <2>1
<1>9. Join(Join(Join(before, X), between), Y) = Join(Join(L, poX), Join(c, qoY))
  <2>1. Join(before, X) \in Seq(Lexicon) /\ between \in Seq(Lexicon)
    BY <1>14, <1>0
  <2>2. Join(Join(Join(before, X), between), Y) = Join(Join(before, X), Join(between, Y))
    BY <1>14, <1>0, <2>1, SMTT(60)
  <2> QED
    BY <1>5, <1>7, <2>2
<1>10. Join(Join(L, poX), Join(c, qoY)) = Join(L, Join(PX, qoY))
  <2> HIDE DEF L, poX, qoY
  <2> QED
    BY <1>14, <1>0, <1>1, <1>8, SMTT(60)
<1>11. Join(Join(left, Join(Join(o, Join(PX, QY)), c)), s) = Join(Join(L, Join(PX, QY)), Join(c, s))
  <2> DEFINE Z == Join(PX, QY)   oZ == Join(o, Z)   cs == Join(c, s)
  <2>1. Z \in Seq(Lexicon) /\ oZ \in Seq(Lexicon) /\ cs \in Seq(Lexicon)
    BY <1>14, <1>0, <1>8, SMTT(60)
  <2> HIDE DEF PX, QY, left
  <2>2. Join(Join(left, Join(oZ, c)), s) = Join(Join(left, oZ), cs)
    <3> HIDE DEF oZ
    <3> QED
      BY <1>14, <1>0, <1>1, <2>1, SMTT(30)
  <2>3. Join(left, oZ) = Join(L, Z)
    <3> HIDE DEF Z
    <3> QED
      BY <1>14, <1>0, <1>1, <2>1, SMTT(30)
  <2> QED
    BY <2>2, <2>3
<1>12. Join(L, Join(PX, QY)) = Join(Join(L, Join(PX, qoY)), c)
  <2> HIDE DEF L, PX, qoY
  <2> QED
    BY <1>14, <1>0, <1>1, <1>8, SMTT(60)
<1>13. Join(Join(L, Join(PX, QY)), Join(c, s)) = Join(Join(L, Join(PX, qoY)), after)
  <2> DEFINE U == Join(L, Join(PX, qoY))
  <2>1. U \in Seq(Lexicon)
    BY <1>14, <1>0, <1>1, <1>8, SMTT(60)
  <2>2. Join(L, Join(PX, QY)) = Join(U, c)
    BY <1>12
  <2> HIDE DEF U, L, PX, QY
  <2> QED
    BY <1>14, <1>0, <2>1, <2>2 DEF U
<1> QED
  BY <1>2, <1>3, <1>9, <1>10, <1>11, <1>13 DEF k, m, o, c, p, q, s

LEMMA CapabilityShape ==
    /\ \A w \in Words, xs \in Seq(Preconditions), ys \in Seq(Assignments) :
          LET c == Node("capability", <<Leaf("identifier", w), Node("pre", xs), Node("post", ys)>>)
          IN  /\ c \in Capabilities
              /\ CapabilityText(c) =
                    Join(Join(Join(Join(<<"capability", w, "{", "pre", "{">>, Written(xs, PreconditionTexts)),
                                   <<"}", "post", "{">>),
                              Written(ys, AssignmentTexts)),
                         <<"}", "}", ";">>)
    /\ \A c \in Capabilities : \E w \in Words, xs \in Seq(Preconditions), ys \in Seq(Assignments) :
          c = Node("capability", <<Leaf("identifier", w), Node("pre", xs), Node("post", ys)>>)
<1>1. Identifiers = {Leaf("identifier", w) : w \in Words}
  BY DEF Identifiers, Leaves
<1>2. ASSUME NEW w \in Words, NEW xs \in Seq(Preconditions), NEW ys \in Seq(Assignments)
      PROVE  LET c == Node("capability", <<Leaf("identifier", w), Node("pre", xs), Node("post", ys)>>)
             IN  /\ c \in Capabilities
                 /\ CapabilityText(c) =
                      Join(Join(Join(Join(<<"capability", w, "{", "pre", "{">>, Written(xs, PreconditionTexts)),
                                     <<"}", "post", "{">>),
                                Written(ys, AssignmentTexts)),
                           <<"}", "}", ";">>)
  <2> DEFINE a == Leaf("identifier", w)   x == Node("pre", xs)   y == Node("post", ys)   t == <<a, x, y>>
  <2>1. /\ a \in Identifiers /\ a.lexeme = w
        /\ x \in Nodes("pre", Seq(Preconditions)) /\ x.parts = xs
        /\ y \in Nodes("post", Seq(Assignments)) /\ y.parts = ys
    BY <1>1, Shapes, InNodes
  <2> HIDE DEF a, x, y
  <2>2. /\ t \in Identifiers \X Nodes("pre", Seq(Preconditions)) \X Nodes("post", Seq(Assignments))
        /\ t[1] = a /\ t[2] = x /\ t[3] = y
    BY <2>1
  <2> HIDE DEF t
  <2> DEFINE c == Node("capability", t)
  <2>3. c \in Capabilities /\ c.parts = t
    BY <2>2, InNodes, Shapes DEF Capabilities
  <2> HIDE DEF c
  <2>4. CapabilityText(c) =
           <<"capability", w, "{", "pre", "{">> \o Lexemes(xs, PreconditionText) \o <<"}", "post", "{">>
             \o Lexemes(ys, AssignmentText) \o <<"}", "}", ";">>
    BY <2>1, <2>2, <2>3 DEF CapabilityText
  <2>5. Lexemes(xs, PreconditionText) = Written(xs, PreconditionTexts)
    <3>1. \A k \in DOMAIN xs : PreconditionText(xs[k]) = PreconditionTexts[xs[k]]
      BY LenProperties, ElementOfSeq DEF PreconditionTexts
    <3>2. [k \in DOMAIN xs |-> PreconditionText(xs[k])] = [k \in DOMAIN xs |-> PreconditionTexts[xs[k]]]
      BY <3>1
    <3> QED
      BY <3>2 DEF Lexemes, Written
  <2>6. Lexemes(ys, AssignmentText) = Written(ys, AssignmentTexts)
    <3>1. \A k \in DOMAIN ys : AssignmentText(ys[k]) = AssignmentTexts[ys[k]]
      BY LenProperties, ElementOfSeq DEF AssignmentTexts
    <3>2. [k \in DOMAIN ys |-> AssignmentText(ys[k])] = [k \in DOMAIN ys |-> AssignmentTexts[ys[k]]]
      BY <3>1
    <3> QED
      BY <3>2 DEF Lexemes, Written
  <2> QED
    BY <2>3, <2>4, <2>5, <2>6 DEF Join, c, t, a, x, y
<1>3. ASSUME NEW c \in Capabilities
      PROVE  \E w \in Words, xs \in Seq(Preconditions), ys \in Seq(Assignments) :
                c = Node("capability", <<Leaf("identifier", w), Node("pre", xs), Node("post", ys)>>)
  <2>1. /\ c.parts \in Identifiers \X Nodes("pre", Seq(Preconditions)) \X Nodes("post", Seq(Assignments))
        /\ c = Node("capability", c.parts)
    BY InNodes DEF Capabilities
  <2>2. PICK a \in Identifiers, x \in Nodes("pre", Seq(Preconditions)), y \in Nodes("post", Seq(Assignments)) :
           c.parts = <<a, x, y>>
    BY <2>1
  <2>3. x.parts \in Seq(Preconditions) /\ x = Node("pre", x.parts)
    BY InNodes
  <2>4. y.parts \in Seq(Assignments) /\ y = Node("post", y.parts)
    BY InNodes
  <2>5. PICK w \in Words : a = Leaf("identifier", w)
    BY <1>1
  <2> QED
    BY <2>1, <2>2, <2>3, <2>4, <2>5
<1> QED
  BY <1>2, <1>3

CapabilityTexts == [c \in Capabilities |-> CapabilityText(c)]

LEMMA FiveTuple ==
    ASSUME NEW a, NEW b, NEW c, NEW d, NEW e
    PROVE  Join(Join(Join(Join(<<a>>, <<b>>), <<c>>), <<d>>), <<e>>) = <<a, b, c, d, e>>
<1>1. Join(<<a>>, <<b>>) = <<a, b>>
  BY JoinTuples
<1>2. Join(<<a, b>>, <<c>>) = <<a, b, c>>
  BY JoinTuples
<1>3. Join(<<a, b, c>>, <<d>>) = <<a, b, c, d>>
  BY LongTuples
<1>4. Join(<<a, b, c, d>>, <<e>>) = <<a, b, c, d, e>>
  BY LongTuples
<1> QED
  BY <1>1, <1>2, <1>3, <1>4

LEMMA OneThenTwo ==
    ASSUME NEW a, NEW b, NEW c
    PROVE  Join(<<a>>, <<b, c>>) = <<a, b, c>>
<1> DEFINE S == {a, b, c}   x == <<a>>   y == <<b>>   z == <<c>>
<1>1. x \in Seq(S) /\ y \in Seq(S) /\ z \in Seq(S)
  OBVIOUS
<1>2. (x \o y) \o z = <<a, b, c>> /\ y \o z = <<b, c>>
  BY Tuples
<1> HIDE DEF x, y, z, S
<1>3. (x \o y) \o z = x \o (y \o z)
  BY ONLY <1>1, ConcatAssociative
<1> QED
  BY <1>2, <1>3 DEF x, Join

LEMMA ThreeTuple ==
    ASSUME NEW a, NEW b, NEW c
    PROVE  Join(Join(<<a>>, <<b>>), <<c>>) = <<a, b, c>>
<1>1. Join(<<a>>, <<b>>) = <<a, b>>
  BY JoinTuples
<1>2. Join(<<a, b>>, <<c>>) = <<a, b, c>>
  BY JoinTuples
<1> QED
  BY <1>1, <1>2

\* The fixed lexemes of a capability.
LEMMA CapabilityFrame ==
    ASSUME NEW w \in Words
    PROVE  /\ Join(Join(Join(Join(<<"capability">>, <<w>>), <<"{">>), <<"pre">>), <<"{">>)
                = <<"capability", w, "{", "pre", "{">>
           /\ Join(Join(<<"}">>, <<"post">>), <<"{">>) = <<"}", "post", "{">>
           /\ Join(Join(<<"}">>, <<"}">>), <<";">>) = <<"}", "}", ";">>
           /\ <<"capability", w, "{", "pre", "{">> \in Seq(Lexicon)
           /\ <<"}", "post", "{">> \in Seq(Lexicon) /\ <<"}", "}", ";">> \in Seq(Lexicon)
<1>1. Join(Join(Join(Join(<<"capability">>, <<w>>), <<"{">>), <<"pre">>), <<"{">>)
        = <<"capability", w, "{", "pre", "{">>
  <2> DEFINE k == "capability"   o == "{"   p == "pre"
  <2> HIDE DEF k, o, p
  <2>1. Join(Join(Join(Join(<<k>>, <<w>>), <<o>>), <<p>>), <<o>>) = <<k, w, o, p, o>>
    BY FiveTuple, ZenonT(30)
  <2> QED
    BY <2>1 DEF k, o, p
<1>2. /\ Join(Join(<<"}">>, <<"post">>), <<"{">>) = <<"}", "post", "{">>
      /\ Join(Join(<<"}">>, <<"}">>), <<";">>) = <<"}", "}", ";">>
  BY ThreeTuple
<1>3. /\ <<"capability">> \in Seq(Lexicon) /\ <<w>> \in Seq(Lexicon) /\ <<"{">> \in Seq(Lexicon)
      /\ <<"pre">> \in Seq(Lexicon) /\ <<"}">> \in Seq(Lexicon) /\ <<"post">> \in Seq(Lexicon)
      /\ <<";">> \in Seq(Lexicon)
  BY SymbolsInLexicon
<1> DEFINE k == <<"capability">>   m == <<w>>   o == <<"{">>   p == <<"pre">>   c == <<"}">>
           q == <<"post">>   s == <<";">>
<1>4. Join(Join(Join(Join(k, m), o), p), o) \in Seq(Lexicon)
  <2>1. k \in Seq(Lexicon) /\ m \in Seq(Lexicon) /\ o \in Seq(Lexicon) /\ p \in Seq(Lexicon)
    BY <1>3
  <2> HIDE DEF k, m, o, p
  <2>2. Join(k, m) \in Seq(Lexicon)
    BY <2>1, JoinFacts
  <2>3. Join(Join(k, m), o) \in Seq(Lexicon)
    BY <2>1, <2>2, JoinFacts
  <2>4. Join(Join(Join(k, m), o), p) \in Seq(Lexicon)
    BY <2>1, <2>3, JoinFacts
  <2> QED
    BY <2>1, <2>4, JoinFacts
<1>5. Join(Join(c, q), o) \in Seq(Lexicon) /\ Join(Join(c, c), s) \in Seq(Lexicon)
  <2>1. c \in Seq(Lexicon) /\ q \in Seq(Lexicon) /\ o \in Seq(Lexicon) /\ s \in Seq(Lexicon)
    BY <1>3
  <2> HIDE DEF c, q, o, s
  <2>2. Join(c, q) \in Seq(Lexicon) /\ Join(c, c) \in Seq(Lexicon)
    BY <2>1, JoinFacts
  <2> QED
    BY <2>1, <2>2, JoinFacts
<1> QED
  BY <1>1, <1>2, <1>4, <1>5

LEMMA CapabilityTextType ==
    /\ CapabilityTexts \in TextsOf(Capabilities)
    /\ \A x \in Capabilities : CapabilityTexts[x] = CapabilityText(x) /\ CapabilityText(x) # << >>
<1>1. ASSUME NEW x \in Capabilities
      PROVE  CapabilityText(x) \in Seq(Lexicon) /\ CapabilityText(x) # << >>
  <2>1. PICK w \in Words, xs \in Seq(Preconditions), ys \in Seq(Assignments) :
           x = Node("capability", <<Leaf("identifier", w), Node("pre", xs), Node("post", ys)>>)
    BY CapabilityShape
  <2> DEFINE f == <<"capability", w, "{", "pre", "{">>   g == Written(xs, PreconditionTexts)
             h == <<"}", "post", "{">>   i == Written(ys, AssignmentTexts)   j == <<"}", "}", ";">>
  <2>2. CapabilityText(x) = Join(Join(Join(Join(f, g), h), i), j)
    BY <2>1, CapabilityShape
  <2>3. f \in Seq(Lexicon) /\ h \in Seq(Lexicon) /\ j \in Seq(Lexicon)
    BY CapabilityFrame
  <2>4. f # << >>
    <3>1. Len(f) = 5 /\ Len(<< >>) = 0
      OBVIOUS
    <3> QED
      BY <3>1
  <2>5. g \in Seq(Lexicon)
    BY PreconditionTextType, WrittenFacts
  <2>6. i \in Seq(Lexicon)
    BY AssignmentTextType, WrittenFacts
  <2> HIDE DEF f, g, h, i, j
  <2>7. Join(f, g) \in Seq(Lexicon) /\ Join(f, g) # << >>
    BY <2>3, <2>4, <2>5, JoinFacts
  <2>8. Join(Join(f, g), h) \in Seq(Lexicon) /\ Join(Join(f, g), h) # << >>
    BY <2>3, <2>7, JoinFacts
  <2>9. Join(Join(Join(f, g), h), i) \in Seq(Lexicon) /\ Join(Join(Join(f, g), h), i) # << >>
    BY <2>6, <2>8, JoinFacts
  <2> QED
    BY <2>2, <2>3, <2>9, JoinFacts
<1> QED
  BY <1>1 DEF CapabilityTexts, TextsOf

LEMMA InBlocks ==
    ASSUME NEW is, NEW keyword, NEW S, NEW T, NEW p \in Blocks(is, keyword, S, T)
    PROVE  \E xs \in Seq(S) : p[1] = <<Node(is, xs)>> /\ p[2] = Block(keyword, xs, T)
<1>1. PICK xs \in Seq(S) : p = <<<<Node(is, xs)>>, Block(keyword, xs, T)>>
  BY DEF Blocks
<1> DEFINE u == <<Node(is, xs)>>   v == Block(keyword, xs, T)
<1>2. p = <<u, v>>
  BY <1>1
<1> HIDE DEF u, v
<1>3. p[1] = u /\ p[2] = v
  BY <1>2
<1> QED
  BY <1>3 DEF u, v

LEMMA CapabilityReads ==
    ASSUME text \in Seq(Lexicon)
    PROVE  Reads(capability_definition, OneOf(Capabilities, CapabilityTexts))
<1> DEFINE K == {<<<< >>, <<"capability">>>>}   I == IdentifierPairs   E == {<<<< >>, <<";">>>>}
           C == Then(PrePairs, PostPairs)   B == Braced(C)
           S == Nodes("pre", Seq(Preconditions)) \cup Nodes("post", Seq(Assignments))
           k == match_keyword("capability")   id == match_identifier   e == semicol
           c == capability_pre_statement ++ capability_post_statement   b == bracketed(c)
           P == Then(Then(Then(K, I), B), E)
<1>1. Reads(k, K) /\ Reads(id, I) /\ Reads(e, E)
  BY StringReads, NameReads, EndReads DEF match_keyword
<1>2. Reads(c, C)
  <2> DEFINE r == capability_pre_statement   s == capability_post_statement
             R == PrePairs   Q == PostPairs
  <2>1. Reads(r, R) /\ Reads(s, Q)
    BY PrePostRead
  <2> HIDE DEF r, s, R, Q
  <2>2. Reads(r ++ s, Then(R, Q))
    BY <2>1, RowReads
  <2> QED
    BY <2>2 DEF r, s, R, Q
<1>3. capability_definition = match_production("capability", ((k ++ id) ++ b) ++ e)
  BY DEF capability_definition
<1>4. ASSUME NEW p \in C
      PROVE  \E xs \in Seq(Preconditions), ys \in Seq(Assignments) :
                /\ p[1] = <<Node("pre", xs), Node("post", ys)>>
                /\ p[2] = Join(Block("pre", xs, PreconditionTexts), Block("post", ys, AssignmentTexts))
  <2>1. PICK x \in PrePairs, y \in PostPairs : p[1] = Join(x[1], y[1]) /\ p[2] = Join(x[2], y[2])
    BY ThenParts
  <2>2. PICK xs \in Seq(Preconditions) : x[1] = <<Node("pre", xs)>> /\ x[2] = Block("pre", xs, PreconditionTexts)
    BY InBlocks DEF PrePairs
  <2>3. PICK ys \in Seq(Assignments) : y[1] = <<Node("post", ys)>> /\ y[2] = Block("post", ys, AssignmentTexts)
    BY InBlocks DEF PostPairs
  <2>4. p[1] = <<Node("pre", xs), Node("post", ys)>>
    BY <2>1, <2>2, <2>3, JoinTuples
  <2> QED
    BY <2>1, <2>2, <2>3, <2>4
<1>5. \A p \in C : p[1] \in Seq(S)
  <2> TAKE p \in C
  <2>1. PICK xs \in Seq(Preconditions), ys \in Seq(Assignments) : p[1] = <<Node("pre", xs), Node("post", ys)>>
    BY <1>4
  <2> DEFINE x == Node("pre", xs)   y == Node("post", ys)
  <2>2. x \in S /\ y \in S
    BY InNodes
  <2> HIDE DEF x, y, S
  <2>3. <<x, y>> \in Seq(S)
    BY <2>2
  <2> QED
    BY <2>1, <2>3 DEF x, y
<1>6. \A p \in K : p[1] = << >> /\ p[2] = <<"capability">>
  BY OnlyPair
<1>7. \A p \in I : \E w \in Words : p[1] = <<Leaf("identifier", w)>> /\ p[2] = <<w>>
  BY DEF IdentifierPairs
<1>8. \A p \in E : p[1] = << >> /\ p[2] = <<";">>
  BY OnlyPair
<1> HIDE DEF K, I, E, C, S, k, id, e, c
<1>9. Reads(b, B)
  BY <1>2, <1>5, BracketReads
<1> HIDE DEF B, b
<1>10. Reads(((k ++ id) ++ b) ++ e, P)
  <2>1. Reads(k ++ id, Then(K, I))
    BY <1>1, RowReads
  <2> DEFINE r == k ++ id
  <2> HIDE DEF r
  <2>2. Reads(r ++ b, Then(Then(K, I), B))
    BY <1>9, <2>1, RowReads DEF r
  <2> DEFINE s == r ++ b
  <2> HIDE DEF s
  <2>3. Reads(s ++ e, P)
    BY <1>1, <2>2, RowReads DEF s
  <2> QED
    BY <2>3 DEF r, s
<1>11. ASSUME NEW p \in P
       PROVE  /\ Node("capability", p[1]) \in Capabilities
              /\ p[2] = CapabilityTexts[Node("capability", p[1])]
  <2>1. PICK q \in Then(Then(K, I), B), t \in E : p[1] = Join(q[1], t[1]) /\ p[2] = Join(q[2], t[2])
    BY ThenParts
  <2>2. PICK r \in Then(K, I), v \in B : q[1] = Join(r[1], v[1]) /\ q[2] = Join(r[2], v[2])
    BY ThenParts
  <2>3. PICK s \in K, u \in I : r[1] = Join(s[1], u[1]) /\ r[2] = Join(s[2], u[2])
    BY ThenParts
  <2>4. PICK w \in Words : u[1] = <<Leaf("identifier", w)>> /\ u[2] = <<w>>
    BY <1>7
  <2>5. PICK m \in C : v[1] = m[1] /\ v[2] = Join(Join(<<"{">>, m[2]), <<"}">>)
    BY BracedParts DEF B
  <2>6. PICK xs \in Seq(Preconditions), ys \in Seq(Assignments) :
           /\ m[1] = <<Node("pre", xs), Node("post", ys)>>
           /\ m[2] = Join(Block("pre", xs, PreconditionTexts), Block("post", ys, AssignmentTexts))
    BY <1>4
  <2>7. s[1] = << >> /\ s[2] = <<"capability">> /\ t[1] = << >> /\ t[2] = <<";">>
    BY <1>6, <1>8
  <2> DEFINE a == Leaf("identifier", w)   x == Node("pre", xs)   y == Node("post", ys)
             n == Node("capability", <<a, x, y>>)
  <2>8. p[1] = <<a, x, y>>
    <3>1. u[1] = <<a>> /\ v[1] = <<x, y>>
      BY <2>4, <2>5, <2>6
    <3> HIDE DEF a, x, y
    <3>2. r[1] = <<a>>
      BY <2>3, <2>7, <3>1, JoinTuples
    <3>3. q[1] = <<a, x, y>>
      <4>1. q[1] = Join(<<a>>, <<x, y>>)
        BY <2>2, <3>1, <3>2
      <4>2. Join(<<a>>, <<x, y>>) = <<a, x, y>>
        BY OneThenTwo
      <4> QED
        BY <4>1, <4>2
    <3>4. p[1] = Join(<<a, x, y>>, << >>)
      BY <2>1, <2>7, <3>3
    <3> QED
      BY <3>4, JoinTuples
  <2> DEFINE fk == <<"capability">>   fm == <<w>>   fo == <<"{">>   fp == <<"pre">>   fc == <<"}">>
             fq == <<"post">>   fs == <<";">>
             X == Written(xs, PreconditionTexts)   Y == Written(ys, AssignmentTexts)
             pre == Join(fp, Join(Join(fo, X), fc))   post == Join(fq, Join(Join(fo, Y), fc))
             before == Join(Join(Join(Join(fk, fm), fo), fp), fo)
             between == Join(Join(fc, fq), fo)
             after == Join(Join(fc, fc), fs)
  <2>9. p[2] = Join(Join(Join(fk, fm), Join(Join(fo, Join(pre, post)), fc)), fs)
    <3>1. v[2] = Join(Join(fo, Join(pre, post)), fc)
      BY <2>5, <2>6 DEF Block
    <3>2. r[2] = Join(fk, fm)
      BY <2>3, <2>4, <2>7
    <3> HIDE DEF pre, post, fo, fc, fk, fm
    <3> QED
      BY <2>1, <2>2, <2>7, <3>1, <3>2
  <2>10. /\ fk \in Seq(Lexicon) /\ fm \in Seq(Lexicon) /\ fo \in Seq(Lexicon)
         /\ fp \in Seq(Lexicon) /\ fc \in Seq(Lexicon) /\ fq \in Seq(Lexicon) /\ fs \in Seq(Lexicon)
    BY SymbolsInLexicon
  <2>11. X \in Seq(Lexicon)
    BY PreconditionTextType, WrittenFacts
  <2>12. Y \in Seq(Lexicon)
    BY AssignmentTextType, WrittenFacts
  <2>13. p[2] = Join(Join(Join(Join(before, X), between), Y), after)
    <3> HIDE DEF X, Y
    <3>1. Join(Join(Join(fk, fm), Join(Join(fo, Join(pre, post)), fc)), fs)
            = Join(Join(Join(Join(before, X), between), Y), after)
      BY ONLY w \in Words, <2>11, <2>12, CapabilityGlue
    <3> HIDE DEF fk, fm, fo, fp, fc, fq, fs
    <3> QED
      BY <2>9, <3>1
  <2>14. /\ before = <<"capability", w, "{", "pre", "{">> /\ between = <<"}", "post", "{">>
         /\ after = <<"}", "}", ";">>
    BY CapabilityFrame
  <2>15. n \in Capabilities /\ CapabilityText(n) =
           Join(Join(Join(Join(<<"capability", w, "{", "pre", "{">>, X), <<"}", "post", "{">>), Y), <<"}", "}", ";">>)
    BY CapabilityShape
  <2>16. CapabilityText(n) = p[2]
    <3> HIDE DEF n, X, Y, before, between, after
    <3> QED
      BY <2>13, <2>14, <2>15
  <2>17. n = Node("capability", p[1])
    BY <2>8
  <2> HIDE DEF n
  <2> QED
    BY <2>15, <2>16, <2>17, CapabilityTextType
<1> DEFINE row == ((k ++ id) ++ b) ++ e
<1>12. Reads(row, P)
  BY <1>10
<1> HIDE DEF P, row
<1>13. Reads(match_production("capability", row), OneOf(Capabilities, CapabilityTexts))
  BY <1>11, <1>12, WholeReads
<1> QED
  BY <1>3, <1>13 DEF row

----------------------------------------------------------------------------
(***************************************************************************)
(* Statements and actors.                                                  *)
(***************************************************************************)
Has(n, w) == Node("has", <<Leaf("number", n), Leaf("identifier", w)>>)
Can(w) == Node("capability_identifier", <<Leaf("identifier", w)>>)

LEMMA StatementShape ==
    /\ \A n \in Numerals, w \in Words :
          Has(n, w) \in Statements /\ StatementText(Has(n, w)) = <<"has", n, w, ";">>
    /\ \A w \in Words : Can(w) \in Statements /\ StatementText(Can(w)) = <<"can", w, ";">>
    /\ \A c \in Capabilities : c \in Statements /\ StatementText(c) = Join(<<"can">>, CapabilityText(c))
    /\ \A s \in Statements : \/ \E n \in Numerals, w \in Words : s = Has(n, w)
                             \/ \E w \in Words : s = Can(w)
                             \/ s \in Capabilities
<1>1. Identifiers = {Leaf("identifier", w) : w \in Words} /\ Numbers = {Leaf("number", n) : n \in Numerals}
  BY DEF Identifiers, Numbers, Leaves
<1>2. ASSUME NEW n \in Numerals, NEW w \in Words
      PROVE  Has(n, w) \in Statements /\ StatementText(Has(n, w)) = <<"has", n, w, ";">>
  <2> DEFINE a == Leaf("number", n)   b == Leaf("identifier", w)   t == <<a, b>>
  <2>1. a \in Numbers /\ b \in Identifiers /\ a.lexeme = n /\ b.lexeme = w
    BY <1>1, Shapes
  <2> HIDE DEF a, b
  <2>2. t \in Numbers \X Identifiers /\ t[1] = a /\ t[2] = b
    BY <2>1
  <2> HIDE DEF t
  <2> DEFINE x == Node("has", t)
  <2>3. x \in HasStatements /\ x.parts = t /\ x.is = "has"
    BY <2>2, InNodes, Shapes DEF HasStatements
  <2>4. Has(n, w) = x
    BY DEF Has, t, a, b
  <2> HIDE DEF x
  <2>5. StatementText(x) = <<"has", n, w, ";">>
    BY <2>1, <2>2, <2>3 DEF StatementText
  <2> QED
    BY <2>3, <2>4, <2>5 DEF Statements
<1>3. ASSUME NEW w \in Words
      PROVE  Can(w) \in Statements /\ StatementText(Can(w)) = <<"can", w, ";">>
  <2> DEFINE b == Leaf("identifier", w)   t == <<b>>
  <2>1. b \in Identifiers /\ b.lexeme = w
    BY <1>1, Shapes
  <2> HIDE DEF b
  <2>2. t \in {<<v>> : v \in Identifiers} /\ t[1] = b
    BY <2>1
  <2> HIDE DEF t
  <2> DEFINE x == Node("capability_identifier", t)
  <2>3. x \in CapabilityIdentifiers /\ x.parts = t /\ x.is = "capability_identifier"
    BY <2>2, InNodes, Shapes DEF CapabilityIdentifiers
  <2>4. Can(w) = x
    BY DEF Can, t, b
  <2> HIDE DEF x
  <2>5. StatementText(x) = <<"can", w, ";">>
    BY <2>1, <2>2, <2>3 DEF StatementText
  <2> QED
    BY <2>3, <2>4, <2>5 DEF Statements
<1>4. ASSUME NEW c \in Capabilities
      PROVE  c \in Statements /\ StatementText(c) = Join(<<"can">>, CapabilityText(c))
  <2>1. c.is = "capability"
    BY InNodes DEF Capabilities
  <2>2. StatementText(c) = <<"can">> \o CapabilityText(c)
    BY <2>1 DEF StatementText
  <2> QED
    BY <2>2 DEF Statements, Join
<1>5. ASSUME NEW s \in Statements
      PROVE  \/ \E n \in Numerals, w \in Words : s = Has(n, w)
             \/ \E w \in Words : s = Can(w)
             \/ s \in Capabilities
  <2>1. CASE s \in HasStatements
    <3>1. s.parts \in Numbers \X Identifiers /\ s = Node("has", s.parts)
      BY <2>1, InNodes DEF HasStatements
    <3>2. PICK a \in Numbers, b \in Identifiers : s.parts = <<a, b>>
      BY <3>1
    <3> QED
      BY <1>1, <3>1, <3>2 DEF Has
  <2>2. CASE s \in CapabilityIdentifiers
    <3>1. s.parts \in {<<v>> : v \in Identifiers} /\ s = Node("capability_identifier", s.parts)
      BY <2>2, InNodes DEF CapabilityIdentifiers
    <3>2. PICK b \in Identifiers : s.parts = <<b>>
      BY <3>1
    <3> QED
      BY <1>1, <3>1, <3>2 DEF Can
  <2> QED
    BY <2>1, <2>2 DEF Statements
<1> QED
  BY <1>2, <1>3, <1>4, <1>5

LEMMA FourTuple ==
    ASSUME NEW a, NEW b, NEW c, NEW d
    PROVE  Join(Join(Join(<<a>>, <<b>>), <<c>>), <<d>>) = <<a, b, c, d>>
<1>1. Join(Join(<<a>>, <<b>>), <<c>>) = <<a, b, c>>
  BY ThreeTuple
<1>2. Join(<<a, b, c>>, <<d>>) = <<a, b, c, d>>
  BY LongTuples
<1> QED
  BY <1>1, <1>2

LEMMA TuplesInLexicon ==
    \A a, b, c \in Lexicon : /\ <<a, b, c>> \in Seq(Lexicon) /\ <<a, b, c>> # << >>
                             /\ \A d \in Lexicon : <<a, b, c, d>> \in Seq(Lexicon) /\ <<a, b, c, d>> # << >>
<1> TAKE a, b, c \in Lexicon
<1>1. <<a, b, c>> \in Seq(Lexicon)
  OBVIOUS
<1>2. <<a, b, c>> # << >>
  <2>1. Len(<<a, b, c>>) = 3 /\ Len(<< >>) = 0
    OBVIOUS
  <2> QED
    BY <2>1
<1>3. ASSUME NEW d \in Lexicon PROVE <<a, b, c, d>> \in Seq(Lexicon) /\ <<a, b, c, d>> # << >>
  <2>1. <<a, b, c, d>> \in Seq(Lexicon)
    OBVIOUS
  <2>2. Len(<<a, b, c, d>>) = 4 /\ Len(<< >>) = 0
    OBVIOUS
  <2> QED
    BY <2>1, <2>2
<1> QED
  BY <1>1, <1>2, <1>3

LEMMA StatementTextType ==
    /\ StatementTexts \in TextsOf(Statements)
    /\ \A s \in Statements : StatementTexts[s] = StatementText(s) /\ StatementText(s) # << >>
<1>1. ASSUME NEW s \in Statements
      PROVE  StatementText(s) \in Seq(Lexicon) /\ StatementText(s) # << >>
  <2>1. ASSUME NEW n \in Numerals, NEW w \in Words, s = Has(n, w)
        PROVE  StatementText(s) \in Seq(Lexicon) /\ StatementText(s) # << >>
    <3>1. StatementText(s) = <<"has", n, w, ";">>
      BY <2>1, StatementShape
    <3>2. "has" \in Lexicon /\ n \in Lexicon /\ w \in Lexicon /\ ";" \in Lexicon
      BY SymbolsInLexicon
    <3> QED
      BY <3>1, <3>2, TuplesInLexicon
  <2>2. ASSUME NEW w \in Words, s = Can(w)
        PROVE  StatementText(s) \in Seq(Lexicon) /\ StatementText(s) # << >>
    <3>1. StatementText(s) = <<"can", w, ";">>
      BY <2>2, StatementShape
    <3>2. "can" \in Lexicon /\ w \in Lexicon /\ ";" \in Lexicon
      BY SymbolsInLexicon
    <3> QED
      BY <3>1, <3>2, TuplesInLexicon
  <2>3. ASSUME s \in Capabilities
        PROVE  StatementText(s) \in Seq(Lexicon) /\ StatementText(s) # << >>
    <3> DEFINE a == <<"can">>   b == CapabilityText(s)
    <3>1. StatementText(s) = Join(a, b)
      BY <2>3, StatementShape
    <3>2. a \in Seq(Lexicon)
      BY SymbolsInLexicon
    <3>3. b \in Seq(Lexicon) /\ b # << >>
      BY <2>3, CapabilityTextType DEF TextsOf
    <3> HIDE DEF a, b
    <3> QED
      BY <3>1, <3>2, <3>3, JoinFacts
  <2> QED
    BY <2>1, <2>2, <2>3, StatementShape
<1> QED
  BY <1>1 DEF StatementTexts, TextsOf

LEMMA HasReads ==
    ASSUME text \in Seq(Lexicon)
    PROVE  Reads(actor_has_statement, OneOf(Statements, StatementTexts))
<1> DEFINE K == {<<<< >>, <<"has">>>>}   N == NumberPairs   I == IdentifierPairs   E == {<<<< >>, <<";">>>>}
           k == match_keyword("has")   n == match_number   id == match_identifier   e == semicol
           P == Then(Then(Then(K, N), I), E)
<1>1. Reads(k, K) /\ Reads(n, N) /\ Reads(id, I) /\ Reads(e, E)
  BY StringReads, NameReads, EndReads DEF match_keyword
<1>2. actor_has_statement = match_production("has", ((k ++ n) ++ id) ++ e)
  BY DEF actor_has_statement
<1>3. \A p \in K : p[1] = << >> /\ p[2] = <<"has">>
  BY OnlyPair
<1>4. \A p \in N : \E m \in Numerals : p[1] = <<Leaf("number", m)>> /\ p[2] = <<m>>
  BY DEF NumberPairs
<1>5. \A p \in I : \E w \in Words : p[1] = <<Leaf("identifier", w)>> /\ p[2] = <<w>>
  BY DEF IdentifierPairs
<1>6. \A p \in E : p[1] = << >> /\ p[2] = <<";">>
  BY OnlyPair
<1> HIDE DEF K, N, I, E, k, n, id, e
<1>7. Reads(((k ++ n) ++ id) ++ e, P)
  <2>1. Reads(k ++ n, Then(K, N))
    BY <1>1, RowReads
  <2> DEFINE r == k ++ n
  <2> HIDE DEF r
  <2>2. Reads(r ++ id, Then(Then(K, N), I))
    BY <1>1, <2>1, RowReads DEF r
  <2> DEFINE s == r ++ id
  <2> HIDE DEF s
  <2>3. Reads(s ++ e, P)
    BY <1>1, <2>2, RowReads DEF s
  <2> QED
    BY <2>3 DEF r, s
<1>8. ASSUME NEW p \in P
      PROVE  Node("has", p[1]) \in Statements /\ p[2] = StatementTexts[Node("has", p[1])]
  <2>1. PICK q \in Then(Then(K, N), I), t \in E : p[1] = Join(q[1], t[1]) /\ p[2] = Join(q[2], t[2])
    BY ThenParts
  <2>2. PICK r \in Then(K, N), v \in I : q[1] = Join(r[1], v[1]) /\ q[2] = Join(r[2], v[2])
    BY ThenParts
  <2>3. PICK s \in K, u \in N : r[1] = Join(s[1], u[1]) /\ r[2] = Join(s[2], u[2])
    BY ThenParts
  <2>4. PICK m \in Numerals : u[1] = <<Leaf("number", m)>> /\ u[2] = <<m>>
    BY <1>4
  <2>5. PICK w \in Words : v[1] = <<Leaf("identifier", w)>> /\ v[2] = <<w>>
    BY <1>5
  <2>6. s[1] = << >> /\ s[2] = <<"has">> /\ t[1] = << >> /\ t[2] = <<";">>
    BY <1>3, <1>6
  <2> DEFINE a == Leaf("number", m)   b == Leaf("identifier", w)
  <2>7. p[1] = <<a, b>>
    <3>1. s[1] = << >> /\ u[1] = <<a>> /\ v[1] = <<b>> /\ t[1] = << >>
      BY <2>4, <2>5, <2>6
    <3> HIDE DEF a, b
    <3>2. r[1] = <<a>>
      BY <2>3, <3>1, JoinTuples
    <3>3. q[1] = <<a, b>>
      BY <2>2, <3>1, <3>2, JoinTuples
    <3> QED
      BY <2>1, <3>1, <3>3, JoinTuples
  <2>8. p[2] = <<"has", m, w, ";">>
    <3>1. p[2] = Join(Join(Join(<<"has">>, <<m>>), <<w>>), <<";">>)
      BY <2>1, <2>2, <2>3, <2>4, <2>5, <2>6
    <3>2. Join(Join(Join(<<"has">>, <<m>>), <<w>>), <<";">>) = <<"has", m, w, ";">>
      <4> DEFINE f == "has"   g == ";"
      <4> HIDE DEF f, g
      <4>1. Join(Join(Join(<<f>>, <<m>>), <<w>>), <<g>>) = <<f, m, w, g>>
        BY FourTuple
      <4> QED
        BY <4>1 DEF f, g
    <3> QED
      BY <3>1, <3>2
  <2>9. Node("has", p[1]) = Has(m, w)
    BY <2>7 DEF Has
  <2>10. Has(m, w) \in Statements /\ StatementText(Has(m, w)) = <<"has", m, w, ";">>
    BY StatementShape
  <2>11. StatementTexts[Has(m, w)] = StatementText(Has(m, w))
    BY <2>10, StatementTextType
  <2> QED
    BY <2>8, <2>9, <2>10, <2>11
<1> DEFINE row == ((k ++ n) ++ id) ++ e
<1>9. Reads(row, P)
  BY <1>7
<1> HIDE DEF P, row
<1>10. Reads(match_production("has", row), OneOf(Statements, StatementTexts))
  BY <1>8, <1>9, WholeReads
<1> QED
  BY <1>2, <1>10 DEF row

LEMMA CanReads ==
    ASSUME text \in Seq(Lexicon)
    PROVE  Reads(actor_can_statement, OneOf(Statements, StatementTexts))
<1> DEFINE K == {<<<< >>, <<"can">>>>}   I == IdentifierPairs   E == {<<<< >>, <<";">>>>}
           C == OneOf(Capabilities, CapabilityTexts)
           D == {<<<<Can(w)>>, <<w, ";">>>> : w \in Words}
           k == match_keyword("can")   id == match_identifier   e == semicol
           c == capability_definition   d == match_capability_identifier
           P == Then(K, C \cup D)
<1>1. Reads(k, K) /\ Reads(id, I) /\ Reads(e, E) /\ Reads(c, C)
  BY StringReads, NameReads, EndReads, CapabilityReads DEF match_keyword
<1>2. \A p \in K : p[1] = << >> /\ p[2] = <<"can">>
  BY OnlyPair
<1>3. \A p \in I : \E w \in Words : p[1] = <<Leaf("identifier", w)>> /\ p[2] = <<w>>
  BY DEF IdentifierPairs
<1>4. \A p \in E : p[1] = << >> /\ p[2] = <<";">>
  BY OnlyPair
<1>5. \A p \in C : \E x \in Capabilities : p[1] = <<x>> /\ p[2] = CapabilityText(x)
  BY CapabilityTextType DEF OneOf
<1>6. \A p \in D : \E w \in Words : p[1] = <<Can(w)>> /\ p[2] = <<w, ";">>
  <2> TAKE p \in D
  <2>1. PICK w \in Words : p = <<<<Can(w)>>, <<w, ";">>>>
    OBVIOUS
  <2> DEFINE u == <<Can(w)>>   v == <<w, ";">>
  <2>2. p = <<u, v>>
    BY <2>1
  <2> HIDE DEF u, v
  <2>3. p[1] = u /\ p[2] = v
    BY <2>2
  <2> QED
    BY <2>3 DEF u, v
<1>7. actor_can_statement = k ++ (c | d)
  BY DEF actor_can_statement
<1>8. Reads(d, D)
  <2> HIDE DEF I, E, id, e
  <2>1. Reads(id ++ e, Then(I, E))
    BY <1>1, RowReads
  <2>2. Reads(match_production("capability_identifier", id ++ e), Whole("capability_identifier", Then(I, E)))
    BY <2>1, ReadsProduction DEF Reads
  <2>3. Whole("capability_identifier", Then(I, E)) \subseteq D
    <3> SUFFICES ASSUME NEW x \in Whole("capability_identifier", Then(I, E)) PROVE x \in D
      OBVIOUS
    <3>1. PICK p \in Then(I, E) : x = <<<<Node("capability_identifier", p[1])>>, p[2]>>
      BY DEF Whole
    <3>2. PICK a \in I, b \in E : p[1] = Join(a[1], b[1]) /\ p[2] = Join(a[2], b[2])
      BY ThenParts
    <3>3. PICK w \in Words : a[1] = <<Leaf("identifier", w)>> /\ a[2] = <<w>>
      BY <1>3
    <3>4. b[1] = << >> /\ b[2] = <<";">>
      BY <1>4
    <3>5. p[1] = <<Leaf("identifier", w)>>
      BY <3>2, <3>3, <3>4, JoinTuples
    <3>6. p[2] = <<w, ";">>
      BY <3>2, <3>3, <3>4, JoinTuples
    <3>7. Node("capability_identifier", p[1]) = Can(w)
      BY <3>5 DEF Can
    <3>8. x = <<<<Can(w)>>, <<w, ";">>>>
      BY <3>1, <3>6, <3>7
    <3> QED
      BY <3>8
  <2> HIDE DEF D
  <2> QED
    BY <2>2, <2>3, SubsetReads DEF match_capability_identifier, id, e
<1> HIDE DEF K, I, E, C, D, k, id, e, c, d
<1>9. Reads(k ++ (c | d), P)
  <2>1. Reads(c | d, C \cup D)
    BY <1>1, <1>8, EitherReads
  <2> DEFINE r == c | d   Q == C \cup D
  <2> HIDE DEF r, Q
  <2>2. Reads(k ++ r, Then(K, Q))
    BY <1>1, <2>1, RowReads DEF r, Q
  <2> QED
    BY <2>2 DEF r, Q
<1>10. P \subseteq OneOf(Statements, StatementTexts)
  <2> SUFFICES ASSUME NEW p \in P PROVE p \in OneOf(Statements, StatementTexts)
    OBVIOUS
  <2>1. PICK a \in K, b \in C \cup D : p[1] = Join(a[1], b[1]) /\ p[2] = Join(a[2], b[2])
    BY ThenParts
  <2>2. a[1] = << >> /\ a[2] = <<"can">>
    BY <1>2
  <2>3. p = <<p[1], p[2]>>
    BY DEF Then
  <2>4. \E s \in Statements : p[1] = <<s>> /\ p[2] = StatementTexts[s]
    <3>1. CASE b \in C
      <4>1. PICK x \in Capabilities : b[1] = <<x>> /\ b[2] = CapabilityText(x)
        BY <1>5, <3>1
      <4>2. p[1] = <<x>>
        BY <2>1, <2>2, <4>1, JoinTuples
      <4>3. p[2] = Join(<<"can">>, CapabilityText(x))
        BY <2>1, <2>2, <4>1
      <4>4. x \in Statements /\ StatementText(x) = Join(<<"can">>, CapabilityText(x))
        BY StatementShape
      <4>5. StatementTexts[x] = StatementText(x)
        BY <4>4, StatementTextType
      <4> QED
        BY <4>2, <4>3, <4>4, <4>5
    <3>2. CASE b \in D
      <4>1. PICK w \in Words : b[1] = <<Can(w)>> /\ b[2] = <<w, ";">>
        BY <1>6, <3>2
      <4>2. p[1] = <<Can(w)>>
        BY <2>1, <2>2, <4>1, JoinTuples
      <4>3. p[2] = <<"can", w, ";">>
        <5>1. p[2] = Join(<<"can">>, <<w, ";">>)
          BY <2>1, <2>2, <4>1
        <5> DEFINE f == "can"   g == ";"
        <5> HIDE DEF f, g
        <5>2. Join(<<f>>, <<w, g>>) = <<f, w, g>>
          BY OneThenTwo
        <5> QED
          BY <5>1, <5>2 DEF f, g
      <4>4. Can(w) \in Statements /\ StatementText(Can(w)) = <<"can", w, ";">>
        BY StatementShape
      <4>5. StatementTexts[Can(w)] = StatementText(Can(w))
        BY <4>4, StatementTextType
      <4> QED
        BY <4>2, <4>3, <4>4, <4>5
    <3> QED
      BY <3>1, <3>2
  <2>5. PICK s \in Statements : p[1] = <<s>> /\ p[2] = StatementTexts[s]
    BY <2>4
  <2>6. p = <<<<s>>, StatementTexts[s]>>
    <3> DEFINE u == <<s>>   v == StatementTexts[s]
    <3>1. p[1] = u /\ p[2] = v
      BY <2>5
    <3> HIDE DEF u, v
    <3>2. p = <<u, v>>
      BY <2>3, <3>1
    <3> QED
      BY <3>2 DEF u, v
  <2> QED
    BY <2>6 DEF OneOf
<1> DEFINE row == k ++ (c | d)
<1> HIDE DEF P
<1>11. Reads(row, OneOf(Statements, StatementTexts))
  <2>1. Reads(row, P)
    BY <1>9
  <2> HIDE DEF row
  <2> QED
    BY <1>10, <2>1, SubsetReads
<1> QED
  BY <1>7, <1>11

LEMMA StatementReads ==
    ASSUME text \in Seq(Lexicon)
    PROVE  Reads(actor_has_statement | actor_can_statement, OneOf(Statements, StatementTexts))
<1> DEFINE r == actor_has_statement   s == actor_can_statement   P == OneOf(Statements, StatementTexts)
<1>1. Reads(r, P) /\ Reads(s, P)
  BY HasReads, CanReads
<1> HIDE DEF r, s, P
<1>2. Reads(r | s, P \cup P)
  BY <1>1, EitherReads
<1>3. P \cup P = P
  OBVIOUS
<1> QED
  BY <1>2, <1>3 DEF r, s, P

LEMMA ActorShape ==
    /\ \A w \in Words, xs \in Seq(Statements) :
          LET d == Node("actor", <<Leaf("identifier", w), Node("content", xs)>>)
          IN  /\ d \in Actors
              /\ ActorText(d) = Join(Join(<<"actor", w, "{">>, Written(xs, StatementTexts)), <<"}", ";">>)
    /\ \A d \in Actors : \E w \in Words, xs \in Seq(Statements) :
          d = Node("actor", <<Leaf("identifier", w), Node("content", xs)>>)
<1>1. Identifiers = {Leaf("identifier", w) : w \in Words}
  BY DEF Identifiers, Leaves
<1>2. ASSUME NEW w \in Words, NEW xs \in Seq(Statements)
      PROVE  LET d == Node("actor", <<Leaf("identifier", w), Node("content", xs)>>)
             IN  /\ d \in Actors
                 /\ ActorText(d) = Join(Join(<<"actor", w, "{">>, Written(xs, StatementTexts)), <<"}", ";">>)
  <2> DEFINE a == Leaf("identifier", w)   x == Node("content", xs)   t == <<a, x>>
  <2>1. a \in Identifiers /\ a.lexeme = w /\ x \in Nodes("content", Seq(Statements)) /\ x.parts = xs
    BY <1>1, Shapes, InNodes
  <2> HIDE DEF a, x
  <2>2. t \in Identifiers \X Nodes("content", Seq(Statements)) /\ t[1] = a /\ t[2] = x
    BY <2>1
  <2> HIDE DEF t
  <2> DEFINE d == Node("actor", t)
  <2>3. d \in Actors /\ d.parts = t
    BY <2>2, InNodes, Shapes DEF Actors
  <2> HIDE DEF d
  <2>4. ActorText(d) = <<"actor", w, "{">> \o Lexemes(xs, StatementText) \o <<"}", ";">>
    BY <2>1, <2>2, <2>3 DEF ActorText
  <2>5. Lexemes(xs, StatementText) = Written(xs, StatementTexts)
    <3>1. \A k \in DOMAIN xs : StatementText(xs[k]) = StatementTexts[xs[k]]
      BY LenProperties, ElementOfSeq DEF StatementTexts
    <3>2. [k \in DOMAIN xs |-> StatementText(xs[k])] = [k \in DOMAIN xs |-> StatementTexts[xs[k]]]
      BY <3>1
    <3> QED
      BY <3>2 DEF Lexemes, Written
  <2> QED
    BY <2>3, <2>4, <2>5 DEF Join, d, t, a, x
<1>3. ASSUME NEW d \in Actors
      PROVE  \E w \in Words, xs \in Seq(Statements) :
                d = Node("actor", <<Leaf("identifier", w), Node("content", xs)>>)
  <2>1. d.parts \in Identifiers \X Nodes("content", Seq(Statements)) /\ d = Node("actor", d.parts)
    BY InNodes DEF Actors
  <2>2. PICK a \in Identifiers, x \in Nodes("content", Seq(Statements)) : d.parts = <<a, x>>
    BY <2>1
  <2>3. x.parts \in Seq(Statements) /\ x = Node("content", x.parts)
    BY InNodes
  <2>4. PICK w \in Words : a = Leaf("identifier", w)
    BY <1>1
  <2> QED
    BY <2>1, <2>2, <2>3, <2>4
<1> QED
  BY <1>2, <1>3

ActorTexts == [d \in Actors |-> ActorText(d)]

LEMMA ActorTextType ==
    /\ ActorTexts \in TextsOf(Actors)
    /\ \A d \in Actors : ActorTexts[d] = ActorText(d) /\ ActorText(d) # << >>
<1>1. ASSUME NEW d \in Actors
      PROVE  ActorText(d) \in Seq(Lexicon) /\ ActorText(d) # << >>
  <2>1. PICK w \in Words, xs \in Seq(Statements) :
           d = Node("actor", <<Leaf("identifier", w), Node("content", xs)>>)
    BY ActorShape
  <2> DEFINE f == <<"actor", w, "{">>   g == Written(xs, StatementTexts)   h == <<"}", ";">>
  <2>2. ActorText(d) = Join(Join(f, g), h)
    BY <2>1, ActorShape
  <2>3. f \in Seq(Lexicon) /\ f # << >> /\ h \in Seq(Lexicon)
    <3>1. "actor" \in Lexicon /\ w \in Lexicon /\ "{" \in Lexicon /\ "}" \in Lexicon /\ ";" \in Lexicon
      BY SymbolsInLexicon
    <3>2. f \in Seq(Lexicon) /\ f # << >>
      BY <3>1, TuplesInLexicon
    <3>3. h \in Seq(Lexicon)
      BY <3>1, PairInLexicon
    <3> QED
      BY <3>2, <3>3
  <2>4. g \in Seq(Lexicon)
    BY StatementTextType, WrittenFacts
  <2> HIDE DEF f, g, h
  <2>5. Join(f, g) \in Seq(Lexicon) /\ Join(f, g) # << >>
    BY <2>3, <2>4, JoinFacts
  <2> QED
    BY <2>2, <2>3, <2>5, JoinFacts
<1> QED
  BY <1>1 DEF ActorTexts, TextsOf

\* The lexemes of an actor, as they are read and as they are written.
LEMMA ActorGlue ==
    ASSUME NEW w \in Words, NEW X \in Seq(Lexicon)
    PROVE  Join(Join(Join(<<"actor">>, <<w>>), Join(Join(<<"{">>, X), <<"}">>)), <<";">>)
             = Join(Join(<<"actor", w, "{">>, X), <<"}", ";">>)
<1> DEFINE k == <<"actor">>   m == <<w>>   o == <<"{">>   c == <<"}">>   s == <<";">>
           left == Join(k, m)   open == Join(left, o)   body == Join(open, X)   end == Join(c, s)
<1>1. k \in Seq(Lexicon) /\ m \in Seq(Lexicon) /\ o \in Seq(Lexicon) /\ c \in Seq(Lexicon) /\ s \in Seq(Lexicon)
  BY SymbolsInLexicon
<1>2. open = <<"actor", w, "{">>
  <2> DEFINE f == "actor"   g == "{"
  <2> HIDE DEF f, g
  <2>1. Join(Join(<<f>>, <<w>>), <<g>>) = <<f, w, g>>
    BY ThreeTuple
  <2> QED
    BY <2>1 DEF f, g
<1>3. end = <<"}", ";">>
  BY JoinTuples
<1> HIDE DEF k, m, o, c, s
<1>4. left \in Seq(Lexicon)
  BY <1>1, JoinFacts
<1>5. open \in Seq(Lexicon) /\ end \in Seq(Lexicon)
  BY <1>1, <1>4, JoinFacts
<1>6. body \in Seq(Lexicon)
  <2> HIDE DEF open
  <2> QED
    BY <1>5, JoinFacts
<1>7. Join(left, Join(Join(o, X), c)) = Join(body, c)
  <2> HIDE DEF left
  <2>1. Join(o, X) \in Seq(Lexicon)
    BY <1>1, JoinFacts
  <2>2. Join(left, Join(Join(o, X), c)) = Join(Join(left, Join(o, X)), c)
    BY <1>1, <1>4, <2>1, JoinFacts
  <2>3. Join(left, Join(o, X)) = Join(Join(left, o), X)
    BY <1>1, <1>4, JoinFacts
  <2> QED
    BY <2>2, <2>3
<1>8. Join(Join(body, c), s) = Join(body, end)
  <2> HIDE DEF body
  <2> QED
    BY <1>1, <1>6, JoinFacts
<1>9. Join(Join(left, Join(Join(o, X), c)), s) = Join(body, end)
  BY <1>7, <1>8
<1> QED
  BY <1>2, <1>3, <1>9 DEF k, m, o, c, s

LEMMA ActorReads ==
    ASSUME text \in Seq(Lexicon)
    PROVE  Reads(actor_definition, OneOf(Actors, ActorTexts))
<1> DEFINE K == {<<<< >>, <<"actor">>>>}   I == IdentifierPairs   E == {<<<< >>, <<";">>>>}
           M == ManyOf(Statements, StatementTexts)   C == Whole("content", M)   B == Braced(C)
           S == Nodes("content", Seq(Statements))
           k == match_keyword("actor")   id == match_identifier   e == semicol
           one == actor_has_statement | actor_can_statement
           c == match_production("content", list(one))   b == bracketed(c)
           P == Then(Then(Then(K, I), B), E)
<1>1. Reads(k, K) /\ Reads(id, I) /\ Reads(e, E)
  BY StringReads, NameReads, EndReads DEF match_keyword
<1>2. Reads(c, C)
  <2> DEFINE V == Statements   T == StatementTexts
  <2>1. T \in TextsOf(V) /\ (\A x \in V : T[x] # << >>) /\ Reads(one, OneOf(V, T))
    BY StatementReads, StatementTextType
  <2> HIDE DEF V, T, one
  <2>2. Reads(list(one), ManyOf(V, T))
    BY <2>1, ReadsList
  <2> QED
    BY <2>2, ReadsProduction DEF Reads, V, T
<1>3. actor_definition = match_production("actor", ((k ++ id) ++ b) ++ e)
  BY DEF actor_definition
<1>4. ASSUME NEW p \in C
      PROVE  \E xs \in Seq(Statements) : p[1] = <<Node("content", xs)>> /\ p[2] = Written(xs, StatementTexts)
  <2>1. PICK m \in M : p = <<<<Node("content", m[1])>>, m[2]>>
    BY DEF Whole
  <2>2. PICK xs \in Seq(Statements) : m = <<xs, Written(xs, StatementTexts)>>
    BY DEF ManyOf
  <2> DEFINE u == <<Node("content", m[1])>>   v == m[2]   y == Written(xs, StatementTexts)
  <2>3. m[1] = xs /\ m[2] = y
    <3> HIDE DEF y
    <3> QED
      BY <2>2 DEF y
  <2>4. p = <<u, v>>
    BY <2>1
  <2>5. p[1] = u /\ p[2] = v
    <3> HIDE DEF u, v
    <3> QED
      BY <2>4
  <2> QED
    BY <2>3, <2>5
<1>5. \A p \in C : p[1] \in Seq(S)
  <2> TAKE p \in C
  <2>1. PICK xs \in Seq(Statements) : p[1] = <<Node("content", xs)>>
    BY <1>4
  <2> DEFINE x == Node("content", xs)
  <2>2. x \in S
    BY InNodes
  <2> HIDE DEF x, S
  <2>3. <<x>> \in Seq(S)
    BY <2>2
  <2> QED
    BY <2>1, <2>3 DEF x
<1>6. \A p \in K : p[1] = << >> /\ p[2] = <<"actor">>
  BY OnlyPair
<1>7. \A p \in I : \E w \in Words : p[1] = <<Leaf("identifier", w)>> /\ p[2] = <<w>>
  BY DEF IdentifierPairs
<1>8. \A p \in E : p[1] = << >> /\ p[2] = <<";">>
  BY OnlyPair
<1> HIDE DEF K, I, E, C, S, k, id, e, c
<1>9. Reads(b, B)
  BY <1>2, <1>5, BracketReads
<1> HIDE DEF B, b
<1>10. Reads(((k ++ id) ++ b) ++ e, P)
  <2>1. Reads(k ++ id, Then(K, I))
    BY <1>1, RowReads
  <2> DEFINE r == k ++ id
  <2> HIDE DEF r
  <2>2. Reads(r ++ b, Then(Then(K, I), B))
    BY <1>9, <2>1, RowReads DEF r
  <2> DEFINE s == r ++ b
  <2> HIDE DEF s
  <2>3. Reads(s ++ e, P)
    BY <1>1, <2>2, RowReads DEF s
  <2> QED
    BY <2>3 DEF r, s
<1>11. ASSUME NEW p \in P
       PROVE  Node("actor", p[1]) \in Actors /\ p[2] = ActorTexts[Node("actor", p[1])]
  <2>1. PICK q \in Then(Then(K, I), B), t \in E : p[1] = Join(q[1], t[1]) /\ p[2] = Join(q[2], t[2])
    BY ThenParts
  <2>2. PICK r \in Then(K, I), v \in B : q[1] = Join(r[1], v[1]) /\ q[2] = Join(r[2], v[2])
    BY ThenParts
  <2>3. PICK s \in K, u \in I : r[1] = Join(s[1], u[1]) /\ r[2] = Join(s[2], u[2])
    BY ThenParts
  <2>4. PICK w \in Words : u[1] = <<Leaf("identifier", w)>> /\ u[2] = <<w>>
    BY <1>7
  <2>5. PICK m \in C : v[1] = m[1] /\ v[2] = Join(Join(<<"{">>, m[2]), <<"}">>)
    BY BracedParts DEF B
  <2>6. PICK xs \in Seq(Statements) : m[1] = <<Node("content", xs)>> /\ m[2] = Written(xs, StatementTexts)
    BY <1>4
  <2>7. s[1] = << >> /\ s[2] = <<"actor">> /\ t[1] = << >> /\ t[2] = <<";">>
    BY <1>6, <1>8
  <2> DEFINE a == Leaf("identifier", w)   x == Node("content", xs)   n == Node("actor", <<a, x>>)
             X == Written(xs, StatementTexts)
  <2>8. p[1] = <<a, x>>
    <3>1. u[1] = <<a>> /\ v[1] = <<x>>
      BY <2>4, <2>5, <2>6
    <3> HIDE DEF a, x
    <3>2. r[1] = <<a>>
      BY <2>3, <2>7, <3>1, JoinTuples
    <3>3. q[1] = <<a, x>>
      BY <2>2, <3>1, <3>2, JoinTuples
    <3>4. p[1] = Join(<<a, x>>, << >>)
      BY <2>1, <2>7, <3>3
    <3> QED
      BY <3>4, JoinTuples
  <2>9. p[2] = Join(Join(Join(<<"actor">>, <<w>>), Join(Join(<<"{">>, X), <<"}">>)), <<";">>)
    <3>1. v[2] = Join(Join(<<"{">>, X), <<"}">>)
      BY <2>5, <2>6
    <3>2. r[2] = Join(<<"actor">>, <<w>>)
      BY <2>3, <2>4, <2>7
    <3> QED
      BY <2>1, <2>2, <2>7, <3>1, <3>2
  <2>10. X \in Seq(Lexicon)
    BY StatementTextType, WrittenFacts
  <2>11. p[2] = Join(Join(<<"actor", w, "{">>, X), <<"}", ";">>)
    <3> HIDE DEF X
    <3>1. Join(Join(Join(<<"actor">>, <<w>>), Join(Join(<<"{">>, X), <<"}">>)), <<";">>)
            = Join(Join(<<"actor", w, "{">>, X), <<"}", ";">>)
      BY ONLY w \in Words, <2>10, ActorGlue
    <3> QED
      BY <2>9, <3>1
  <2>12. n \in Actors /\ ActorText(n) = Join(Join(<<"actor", w, "{">>, X), <<"}", ";">>)
    BY ActorShape
  <2>13. ActorText(n) = p[2]
    <3> HIDE DEF n, X
    <3> QED
      BY <2>11, <2>12
  <2>14. n = Node("actor", p[1])
    BY <2>8
  <2> HIDE DEF n
  <2> QED
    BY <2>12, <2>13, <2>14, ActorTextType
<1> DEFINE row == ((k ++ id) ++ b) ++ e
<1>12. Reads(row, P)
  BY <1>10
<1> HIDE DEF P, row
<1>13. Reads(match_production("actor", row), OneOf(Actors, ActorTexts))
  BY <1>11, <1>12, WholeReads
<1> QED
  BY <1>3, <1>13 DEF row

----------------------------------------------------------------------------
(***************************************************************************)
(* The text while it is written and damaged.                               *)
(***************************************************************************)
LEMMA DeclarationTextType ==
    \A d \in Actors \cup Capabilities :
        /\ DeclarationText(d) \in Seq(Lexicon) /\ DeclarationText(d) # << >>
        /\ d \in Actors => DeclarationText(d) = ActorText(d) /\ d \notin Capabilities
        /\ d \in Capabilities => DeclarationText(d) = CapabilityText(d)
<1>1. \A d \in Actors : d.is = "actor"
  BY InNodes DEF Actors
<1>2. \A d \in Capabilities : d.is = "capability"
  BY InNodes DEF Capabilities
<1>3. \A d \in Actors : ActorText(d) \in Seq(Lexicon) /\ ActorText(d) # << >>
  BY ActorTextType DEF TextsOf
<1>4. \A d \in Capabilities : CapabilityText(d) \in Seq(Lexicon) /\ CapabilityText(d) # << >>
  BY CapabilityTextType DEF TextsOf
<1> QED
  BY <1>1, <1>2, <1>3, <1>4 DEF DeclarationText

LEMMA PartsType ==
    ASSUME text \in Seq(Lexicon), NEW m \in 1..(Len(text) + 1), NEW n \in 0..Len(text)
    PROVE  SubSeq(text, m, n) \in Seq(Lexicon) /\ Len(SubSeq(text, m, n)) = IF m <= n THEN n - m + 1 ELSE 0
<1>1. m \in Int /\ n \in Int /\ \A k \in m..n : text[k] \in Lexicon
  BY TextFacts
<1>2. /\ SubSeq(text, m, n) \in Seq(Lexicon)
      /\ Len(SubSeq(text, m, n)) = IF m <= n THEN n - m + 1 ELSE 0
  BY <1>1, SubSeqProperties
<1> QED
  BY <1>2

\* Damage leaves a text of lexemes.
LEMMA DamagedText ==
    ASSUME text \in Seq(Lexicon), NEW i \in DOMAIN text
    PROVE  /\ RemoveAt(text, i) \in Seq(Lexicon)
           /\ InsertAt(text, i, text[i]) \in Seq(Lexicon)
           /\ i < Len(text) => [text EXCEPT ![i] = text[i + 1], ![i + 1] = text[i]] \in Seq(Lexicon)
<1>1. Len(text) \in Nat /\ DOMAIN text = 1..Len(text) /\ \A k \in 1..Len(text) : text[k] \in Lexicon
  BY TextFacts, LenProperties
<1>2. /\ i \in Int /\ 1 \in 1..(Len(text) + 1) /\ i \in 1..(Len(text) + 1) /\ i + 1 \in 1..(Len(text) + 1)
      /\ i - 1 \in 0..Len(text) /\ Len(text) \in 0..Len(text)
  BY <1>1
<1> DEFINE a == SubSeq(text, 1, i - 1)   b == SubSeq(text, i + 1, Len(text))
           c == SubSeq(text, i, Len(text))   e == <<text[i]>>
<1>3. a \in Seq(Lexicon) /\ b \in Seq(Lexicon) /\ c \in Seq(Lexicon)
  BY <1>2, PartsType
<1>4. e \in Seq(Lexicon)
  BY <1>1
<1>5. RemoveAt(text, i) = Join(a, b) /\ InsertAt(text, i, text[i]) = Join(Join(a, e), c)
  BY DEF RemoveAt, InsertAt, Join
<1>6. RemoveAt(text, i) \in Seq(Lexicon) /\ InsertAt(text, i, text[i]) \in Seq(Lexicon)
  <2> HIDE DEF a, b, c, e
  <2>1. Join(a, b) \in Seq(Lexicon) /\ Join(a, e) \in Seq(Lexicon)
    BY <1>3, <1>4, JoinFacts
  <2>2. Join(Join(a, e), c) \in Seq(Lexicon)
    BY <1>3, <2>1, JoinFacts
  <2> QED
    BY <1>5, <2>1, <2>2
<1>7. ASSUME i < Len(text)
      PROVE  [text EXCEPT ![i] = text[i + 1], ![i + 1] = text[i]] \in Seq(Lexicon)
  <2>1. text[i] \in Lexicon /\ text[i + 1] \in Lexicon
    BY <1>1, <1>7
  <2> DEFINE x == text[i + 1]   y == text[i]   s == [text EXCEPT ![i] = x]
  <2>2. [text EXCEPT ![i] = text[i + 1], ![i + 1] = text[i]] = [s EXCEPT ![i + 1] = y]
    OBVIOUS
  <2>3. x \in Lexicon /\ y \in Lexicon /\ i \in 1..Len(text) /\ i + 1 \in 1..Len(text)
    BY <1>1, <1>7, <2>1
  <2> HIDE DEF x, y
  <2>4. s \in Seq(Lexicon) /\ Len(s) = Len(text)
    BY <2>3, ExceptSeq
  <2>5. i + 1 \in 1..Len(s)
    BY <2>3, <2>4
  <2> HIDE DEF s
  <2>6. [s EXCEPT ![i + 1] = y] \in Seq(Lexicon)
    BY <2>3, <2>4, <2>5, ExceptSeq
  <2> QED
    BY <2>2, <2>6 DEF x, y
<1> QED
  BY <1>6, <1>7

\* Among the numbers up to n that have a property there is a largest.
LEMMA LargestNumber ==
    ASSUME NEW n \in Nat, NEW S, S \subseteq 0..n, 0 \in S
    PROVE  \E k \in S : \A m \in S : m <= k
<1> DEFINE D == {u \in Nat : \E k \in S : k <= u /\ \A m \in S : m <= u => m <= k}
<1>1. 0 \in D
  OBVIOUS
<1>2. ASSUME NEW u \in Nat, u \in D PROVE u + 1 \in D
  <2>1. PICK k \in S : k <= u /\ \A m \in S : m <= u => m <= k
    BY <1>2
  <2>2. k \in Int /\ \A m \in S : m \in Int /\ (m <= u + 1 => m <= u \/ m = u + 1)
    OBVIOUS
  <2>3. CASE u + 1 \in S
    BY <2>2, <2>3
  <2>4. CASE u + 1 \notin S
    <3>1. k <= u + 1 /\ \A m \in S : m <= u + 1 => m <= k
      BY <2>1, <2>2, <2>4
    <3> QED
      BY <3>1
  <2> QED
    BY <2>3, <2>4
<1>3. n \in D
  <2> HIDE DEF D
  <2> QED
    BY <1>1, <1>2, InductiveSet
<1>4. PICK k \in S : \A m \in S : m <= n => m <= k
  BY <1>3
<1> QED
  BY <1>4

LEMMA DeclaredBeforeType ==
    ASSUME declared \in Seq(Actors \cup Capabilities), NEW i \in Nat, 1 <= i
    PROVE  /\ DeclaredBefore(i) \in 0..Len(declared)
           /\ Len(Lexemes(SubSeq(declared, 1, DeclaredBefore(i)), DeclarationText)) < i
<1> DEFINE ends == {n \in 0..Len(declared) : Len(Lexemes(SubSeq(declared, 1, n), DeclarationText)) < i}
<1>1. Len(declared) \in Nat
  BY LenProperties
<1>2. 0 \in ends
  <2>1. SubSeq(declared, 1, 0) = << >>
    <3> DEFINE S == Actors \cup Capabilities
    <3>1. declared \in Seq(S) /\ 1 \in Int /\ 0 \in Int /\ 0 < 1
      OBVIOUS
    <3> HIDE DEF S
    <3> QED
      BY <3>1, SubSeqEmpty
  <2>2. Lexemes(SubSeq(declared, 1, 0), DeclarationText) = << >>
    <3> DEFINE s == SubSeq(declared, 1, 0)
    <3>1. s = << >>
      BY <2>1
    <3> HIDE DEF s
    <3>2. [k \in DOMAIN s |-> DeclarationText(s[k])] = << >>
      BY <3>1
    <3>3. FlattenSeq([k \in DOMAIN s |-> DeclarationText(s[k])]) = << >>
      BY <3>2, FlattenEmpty
    <3> QED
      BY <3>3 DEF Lexemes, s
  <2>3. Len(<< >>) = 0
    OBVIOUS
  <2>4. Len(Lexemes(SubSeq(declared, 1, 0), DeclarationText)) < i
    BY <2>2, <2>3
  <2> QED
    BY <1>1, <2>4
<1>3. \E n \in ends : \A m \in ends : m <= n
  <2>1. ends \subseteq 0..Len(declared)
    OBVIOUS
  <2> HIDE DEF ends
  <2> QED
    BY <1>1, <1>2, <2>1, LargestNumber
<1>4. DeclaredBefore(i) = CHOOSE n \in ends : \A m \in ends : m <= n
  BY DEF DeclaredBefore
<1>5. DeclaredBefore(i) \in ends
  <2> HIDE DEF ends
  <2> QED
    BY <1>3, <1>4
<1> QED
  BY <1>5

----------------------------------------------------------------------------
(***************************************************************************)
(* What is read is made of the trees of the language, for a text that is   *)
(* written and damaged in any way: the text does not change while it is    *)
(* read, and until then nothing is read of it.                             *)
(***************************************************************************)
Inv ==
    /\ TypeOK
    /\ pc = "writing" => at = 1

\* A turn of the list adds one declaration, whose lexemes it consumes.
LEMMA TurnReads ==
    ASSUME text \in Seq(Lexicon), NEW i \in Positions
    PROVE  /\ \A m \in actor_definition[i] : m.to \in Positions /\
                 \E d \in Actors : m.built = <<d>> /\ Consumed(i, m.to) = DeclarationText(d)
           /\ \A m \in capability_definition[i] : m.to \in Positions /\
                 \E d \in Capabilities : m.built = <<d>> /\ Consumed(i, m.to) = DeclarationText(d)
<1>1. ASSUME NEW m \in actor_definition[i]
      PROVE  m.to \in Positions /\
                \E d \in Actors : m.built = <<d>> /\ Consumed(i, m.to) = DeclarationText(d)
  <2>1. m.to \in Positions /\ <<m.built, Consumed(i, m.to)>> \in OneOf(Actors, ActorTexts)
    BY ActorReads, ReadsEach
  <2>2. PICK d \in Actors : <<m.built, Consumed(i, m.to)>> = <<<<d>>, ActorTexts[d]>>
    BY <2>1 DEF OneOf
  <2>3. m.built = <<d>> /\ Consumed(i, m.to) = ActorTexts[d]
    BY <2>2
  <2> QED
    BY <2>1, <2>3, ActorTextType, DeclarationTextType
<1>2. ASSUME NEW m \in capability_definition[i]
      PROVE  m.to \in Positions /\
                \E d \in Capabilities : m.built = <<d>> /\ Consumed(i, m.to) = DeclarationText(d)
  <2>1. m.to \in Positions /\ <<m.built, Consumed(i, m.to)>> \in OneOf(Capabilities, CapabilityTexts)
    BY CapabilityReads, ReadsEach
  <2>2. PICK d \in Capabilities : <<m.built, Consumed(i, m.to)>> = <<<<d>>, CapabilityTexts[d]>>
    BY <2>1 DEF OneOf
  <2>3. m.built = <<d>> /\ Consumed(i, m.to) = CapabilityTexts[d]
    BY <2>2
  <2> QED
    BY <2>1, <2>3, CapabilityTextType, DeclarationTextType
<1> QED
  BY <1>1, <1>2

LEMMA AppendOne ==
    ASSUME NEW S, NEW s \in Seq(S), NEW d \in S
    PROVE  s \o <<d>> \in Seq(S) /\ Last(s \o <<d>>) = d /\ s \o <<d>> # s
<1>1. s \o <<d>> = Append(s, d)
  BY AppendIsConcat
<1>2. /\ Append(s, d) \in Seq(S) /\ Len(Append(s, d)) = Len(s) + 1 /\ Append(s, d)[Len(s) + 1] = d
  BY AppendProperties
<1>3. Len(s) \in Nat
  BY LenProperties
<1>4. Append(s, d) # s
  BY <1>2, <1>3
<1> QED
  BY <1>1, <1>2, <1>4 DEF Last

LEMMA InitInv == Init => Inv
<1> SUFFICES ASSUME Init PROVE Inv
  OBVIOUS
<1>1. << >> \in Seq(Actors \cup Capabilities) /\ << >> \in Seq(Lexicon) /\ << >> \in Seq(Actors)
      /\ << >> \in Seq(Capabilities) /\ Len(<< >>) = 0
  OBVIOUS
<1> QED
  BY <1>1 DEF Init, Inv, TypeOK, Positions

LEMMA DeclareInv == Inv /\ Declare => Inv'
<1> SUFFICES ASSUME Inv, Declare PROVE Inv'
  OBVIOUS
<1> DEFINE S == Actors \cup Capabilities
<1>1. declared \in Seq(S) /\ text \in Seq(Lexicon) /\ at = 1 /\ intact = Len(declared) /\ Len(declared) \in Nat
  BY LenProperties DEF Inv, TypeOK, Declare
<1>2. PICK d \in Declarations[Len(declared) + 1] :
        declared' = Append(declared, d) /\ text' = text \o DeclarationText(d)
  BY DEF Declare
<1>3. d \in S
  <2>1. Len(declared) + 1 \in Nat /\ Len(declared) < Len(Declarations)
    BY <1>1 DEF Declare
  <2>2. Len(declared) + 1 \in DOMAIN Declarations
    BY <1>1, <2>1, DeclarationsAssumption
  <2> QED
    BY <2>2, DeclarationsAssumption
<1>4. DeclarationText(d) \in Seq(Lexicon)
  BY <1>3, DeclarationTextType
<1> HIDE DEF S
<1>5. declared' \in Seq(S) /\ Len(declared') = Len(declared) + 1
  <2>1. Append(declared, d) \in Seq(S) /\ Len(Append(declared, d)) = Len(declared) + 1
    BY <1>1, <1>3, AppendProperties
  <2> QED
    BY <1>2, <2>1
<1>6. text' \in Seq(Lexicon)
  <2> DEFINE t == DeclarationText(d)
  <2> HIDE DEF t
  <2>1. text \o t \in Seq(Lexicon)
    BY <1>1, <1>4, ConcatProperties DEF t
  <2> QED
    BY <1>2, <2>1 DEF t
<1>7. at' = 1 /\ Len(text') \in Nat /\ intact' \in 0..Len(declared')
  BY <1>1, <1>5, <1>6, LenProperties DEF Declare, reading
<1>8. at' \in Positions'
  BY <1>7 DEF Positions
<1> QED
  BY <1>5, <1>6, <1>7, <1>8 DEF Inv, TypeOK, Declare, reading, S

LEMMA DamageInv == Inv /\ Damage => Inv'
<1> SUFFICES ASSUME Inv, Damage PROVE Inv'
  OBVIOUS
<1>1. /\ declared \in Seq(Actors \cup Capabilities) /\ text \in Seq(Lexicon) /\ at = 1
      /\ Len(text) \in Nat /\ DOMAIN text = 1..Len(text)
  BY LenProperties DEF Inv, TypeOK, Damage
<1>2. PICK i \in DOMAIN text :
        /\ \/ text' = RemoveAt(text, i)
           \/ text' = InsertAt(text, i, text[i])
           \/ i < Len(text) /\ text[i] # text[i + 1] /\ text' =
                 [text EXCEPT ![i] = text[i + 1], ![i + 1] = text[i]]
        /\ intact' = DeclaredBefore(i)
  BY DEF Damage
<1>3. text' \in Seq(Lexicon)
  BY <1>1, <1>2, DamagedText
<1>4. intact' \in 0..Len(declared')
  <2>1. i \in Nat /\ 1 <= i
    BY <1>1
  <2>2. DeclaredBefore(i) \in 0..Len(declared)
    BY <1>1, <2>1, DeclaredBeforeType
  <2> QED
    BY <1>2, <2>2 DEF Damage
<1>5. at' \in Positions' /\ at' = 1
  <2>1. Len(text') \in Nat
    BY <1>3, LenProperties
  <2> QED
    BY <1>1, <2>1 DEF Damage, reading, Positions
<1> QED
  BY <1>3, <1>4, <1>5 DEF Inv, TypeOK, Damage, reading

LEMMA ParseActorInv == Inv /\ ParseActor => Inv'
<1> SUFFICES ASSUME Inv, ParseActor PROVE Inv'
  OBVIOUS
<1>1. text \in Seq(Lexicon) /\ at \in Positions /\ actors \in Seq(Actors)
  BY DEF Inv, TypeOK
<1>2. PICK m \in actor_definition[at] : at' = m.to /\ actors' = actors \o m.built
  BY DEF ParseActor
<1>3. m.to \in Positions
  BY <1>1, TurnReads
<1>4. PICK d \in Actors : m.built = <<d>>
  BY <1>1, TurnReads
<1>5. actors' \in Seq(Actors)
  BY <1>1, <1>2, <1>4, AppendOne
<1>6. at' \in Positions'
  BY <1>2, <1>3 DEF ParseActor, writing, Positions
<1> QED
  BY <1>5, <1>6 DEF Inv, TypeOK, ParseActor, writing

LEMMA ParseCapabilityInv == Inv /\ ParseCapability => Inv'
<1> SUFFICES ASSUME Inv, ParseCapability PROVE Inv'
  OBVIOUS
<1>1. text \in Seq(Lexicon) /\ at \in Positions /\ capabilities \in Seq(Capabilities)
  BY DEF Inv, TypeOK
<1>2. PICK m \in capability_definition[at] : at' = m.to /\ capabilities' = capabilities \o m.built
  BY DEF ParseCapability
<1>3. m.to \in Positions
  BY <1>1, TurnReads
<1>4. PICK d \in Capabilities : m.built = <<d>>
  BY <1>1, TurnReads
<1>5. capabilities' \in Seq(Capabilities)
  BY <1>1, <1>2, <1>4, AppendOne
<1>6. at' \in Positions'
  BY <1>2, <1>3 DEF ParseCapability, writing, Positions
<1> QED
  BY <1>5, <1>6 DEF Inv, TypeOK, ParseCapability, writing

LEMMA NextInv == Inv /\ [Next]_vars => Inv'
<1> SUFFICES ASSUME Inv, [Next]_vars PROVE Inv'
  OBVIOUS
<1>1. CASE Declare
  BY <1>1, DeclareInv
<1>2. CASE Damage
  BY <1>2, DamageInv
<1>3. CASE Parse
  BY <1>3 DEF Inv, TypeOK, Parse, writing, reading, Positions
<1>4. CASE ParseActor
  BY <1>4, ParseActorInv
<1>5. CASE ParseCapability
  BY <1>5, ParseCapabilityInv
<1>6. CASE EndList
  BY <1>6 DEF Inv, TypeOK, EndList, writing, reading, Positions
<1>7. CASE UNCHANGED vars
  BY <1>7 DEF Inv, TypeOK, vars, writing, reading, Positions
<1> QED
  BY <1>1, <1>2, <1>3, <1>4, <1>5, <1>6, <1>7 DEF Next

(***************************************************************************)
(* Whatever the text, every actor and every capability that the grammar    *)
(* builds has the shape of its type in concrete_ast.hh, expressions        *)
(* nested to any depth included (fabl_grammar.hh:119-140).                 *)
(***************************************************************************)
THEOREM TypeCorrect == Spec => []TypeOK
<1>1. Inv => TypeOK
  BY DEF Inv
<1> QED
  BY <1>1, InitInv, NextInv, PTL DEF Spec

LEMMA StepConsumes ==
    ASSUME Inv, [Next]_vars
    PROVE  LET consumed == SubSeq(text, at, at' - 1)
           IN  /\ actors' # actors => consumed = DeclarationText(Last(actors'))
               /\ capabilities' # capabilities => consumed = DeclarationText(Last(capabilities'))
               /\ actors' = actors /\ capabilities' = capabilities => at' = at
<1>1. /\ text \in Seq(Lexicon) /\ at \in Positions
      /\ actors \in Seq(Actors) /\ capabilities \in Seq(Capabilities)
  BY DEF Inv, TypeOK
<1>2. SubSeq(text, at, at' - 1) = Consumed(at, at')
  BY DEF Consumed
<1>3. CASE ParseActor
  <2>1. PICK m \in actor_definition[at] : at' = m.to /\ actors' = actors \o m.built
    BY <1>3 DEF ParseActor
  <2>2. PICK d \in Actors : m.built = <<d>> /\ Consumed(at, m.to) = DeclarationText(d)
    BY <1>1, TurnReads
  <2>3. Last(actors') = d /\ actors' # actors
    BY <1>1, <2>1, <2>2, AppendOne
  <2>4. capabilities' = capabilities
    BY <1>3 DEF ParseActor
  <2> QED
    BY <1>2, <2>1, <2>2, <2>3, <2>4
<1>4. CASE ParseCapability
  <2>1. PICK m \in capability_definition[at] : at' = m.to /\ capabilities' = capabilities \o m.built
    BY <1>4 DEF ParseCapability
  <2>2. PICK d \in Capabilities : m.built = <<d>> /\ Consumed(at, m.to) = DeclarationText(d)
    BY <1>1, TurnReads
  <2>3. Last(capabilities') = d /\ capabilities' # capabilities
    BY <1>1, <2>1, <2>2, AppendOne
  <2>4. actors' = actors
    BY <1>4 DEF ParseCapability
  <2> QED
    BY <1>2, <2>1, <2>2, <2>3, <2>4
<1>5. CASE Declare \/ Damage \/ Parse \/ EndList \/ UNCHANGED vars
  BY <1>5 DEF Declare, Damage, Parse, EndList, vars, reading
<1> QED
  BY <1>3, <1>4, <1>5 DEF Next

(***************************************************************************)
(* A turn of the list consumes exactly the lexemes of the declaration it   *)
(* adds, for every text: an alternative that failed has consumed nothing   *)
(* and built nothing (fabl_grammar.hh:249-268).                            *)
(***************************************************************************)
THEOREM ConsumptionCorrect == Spec => AddsWhatItConsumes
<1>1. Inv /\ [Next]_vars => [LET consumed == SubSeq(text, at, at' - 1)
                             IN  /\ actors' # actors => consumed = DeclarationText(Last(actors'))
                                 /\ capabilities' # capabilities => consumed = DeclarationText(Last(capabilities'))
                                 /\ actors' = actors /\ capabilities' = capabilities => at' = at]_vars
  BY StepConsumes
<1> QED
  BY <1>1, InitInv, NextInv, PTL DEF Spec, AddsWhatItConsumes
----------------------------------------------------------------------------
(***************************************************************************)
(* The other direction: what was written is read.  Spans: a text stands    *)
(* from position i up to k.  Finds: the rule has one match at i, which     *)
(* ends at k and builds these nodes.                                       *)
(***************************************************************************)
Spans(i, k, s) == i \in Positions /\ k \in Positions /\ i <= k /\ Consumed(i, k) = s
Finds(r, i, k, built) == r[i] = {Match(k, built)}
Fails(r, i) == r[i] = {}
Here(i, lexeme) == i \in Positions /\ i <= Len(text) /\ text[i] = lexeme

\* A text of two parts is cut where the first ends.
LEMMA SpansCut ==
    ASSUME text \in Seq(Lexicon), NEW a \in Seq(Lexicon), NEW b \in Seq(Lexicon), NEW i, NEW k,
           Spans(i, k, Join(a, b))
    PROVE  \E j \in Positions : j = i + Len(a) /\ Spans(i, j, a) /\ Spans(j, k, b)
<1> DEFINE j == i + Len(a)   N == Len(text)
<1>0. i \in Positions /\ k \in Positions /\ i <= k /\ Consumed(i, k) = a \o b
  BY DEF Spans, Join
<1>1. /\ N \in Nat /\ Positions = 1..(N + 1) /\ i \in Nat /\ k \in Nat /\ 1 <= i /\ k <= N + 1
      /\ Len(a) \in Nat /\ Len(b) \in Nat
  BY <1>0, TextFacts, LenProperties
<1>2. /\ Len(a \o b) = Len(a) + Len(b)
      /\ \A n \in 1..(Len(a) + Len(b)) : (a \o b)[n] = IF n <= Len(a) THEN a[n] ELSE b[n - Len(a)]
  BY ConcatProperties
<1>3. /\ Consumed(i, k) \in Seq(Lexicon) /\ Len(Consumed(i, k)) = k - i
      /\ \A n \in 1..(k - i) : Consumed(i, k)[n] = text[i + n - 1]
  BY <1>0, ConsumedFacts
<1>4. k - i = Len(a) + Len(b)
  BY <1>0, <1>2, <1>3
<1>5. j \in Positions /\ i <= j /\ j <= k /\ j - i = Len(a) /\ k - j = Len(b) /\ j = i + Len(a)
  BY <1>1, <1>4
<1>6. \A n \in 1..(Len(a) + Len(b)) : text[i + n - 1] = IF n <= Len(a) THEN a[n] ELSE b[n - Len(a)]
  BY <1>0, <1>2, <1>3, <1>4
<1> HIDE DEF j, N
<1>7. Consumed(i, j) = a
  <2> DEFINE u == Consumed(i, j)
  <2>1. u \in Seq(Lexicon) /\ Len(u) = Len(a) /\ \A n \in 1..Len(a) : u[n] = text[i + n - 1]
    <3>1. u \in Seq(Lexicon) /\ Len(u) = j - i /\ \A n \in 1..(j - i) : u[n] = text[i + n - 1]
      BY <1>0, <1>5, ConsumedFacts
    <3> HIDE DEF u
    <3> QED
      BY <1>5, <3>1
  <2> HIDE DEF u
  <2>2. \A n \in 1..Len(a) : u[n] = a[n]
    <3> SUFFICES ASSUME NEW n \in 1..Len(a)  PROVE u[n] = a[n]
      OBVIOUS
    <3>1. Len(a) \in Nat /\ Len(b) \in Nat /\ n \in 1..(Len(a) + Len(b)) /\ n <= Len(a)
      BY ONLY <1>1, a \in Seq(Lexicon), b \in Seq(Lexicon), n \in 1..Len(a)
    <3>2. u[n] = text[i + n - 1]
      BY ONLY <2>1, n \in 1..Len(a)
    <3>3. text[i + n - 1] = a[n]
      BY ONLY <1>6, <3>1
    <3> QED
      BY ONLY <3>2, <3>3
  <2>3. u = a
    BY <2>1, <2>2, SeqEqual
  <2> QED
    BY <2>3 DEF u
<1>8. Consumed(j, k) = b
  <2> DEFINE u == Consumed(j, k)
  <2>1. u \in Seq(Lexicon) /\ Len(u) = Len(b) /\ \A n \in 1..Len(b) : u[n] = text[j + n - 1]
    <3>1. /\ u \in Seq(Lexicon) /\ Len(u) = k - j /\ \A n \in 1..(k - j) : u[n] = text[j + n - 1]
      BY <1>0, <1>5, ConsumedFacts
    <3> HIDE DEF u
    <3> QED
      BY <1>5, <3>1
  <2> HIDE DEF u
  <2>2. ASSUME NEW n \in 1..Len(b) PROVE u[n] = b[n]
    <3> DEFINE m == n + Len(a)
    <3>1. /\ m \in 1..(Len(a) + Len(b)) /\ ~(m <= Len(a))
          /\ i + m - 1 = j + n - 1 /\ m - Len(a) = n
      BY <1>1, <1>5
    <3> HIDE DEF m
    <3>2. text[i + m - 1] = b[m - Len(a)]
      BY <1>6, <3>1
    <3> QED
      BY <2>1, <3>1, <3>2
  <2>3. u = b
    BY <2>1, <2>2, SeqEqual
  <2> QED
    BY <2>3 DEF u
<1> QED
  BY <1>0, <1>5, <1>7, <1>8 DEF Spans

LEMMA SpansHead ==
    ASSUME text \in Seq(Lexicon), NEW s, NEW i, NEW k, Spans(i, k, s), s # << >>
    PROVE  Here(i, s[1])
BY HeadLexeme DEF Spans, Here

LEMMA SpansNone ==
    ASSUME text \in Seq(Lexicon), NEW i, NEW k, Spans(i, k, << >>)
    PROVE  i = k
<1>1. Len(Consumed(i, k)) = k - i /\ Consumed(i, k) = << >> /\ i \in Positions /\ k \in Positions
  BY ConsumedFacts DEF Spans
<1>2. k - i = 0
  BY <1>1
<1> QED
  BY <1>1, <1>2, TextFacts

\* The positions of the lexemes of a text.
LEMMA SpansOne ==
    ASSUME text \in Seq(Lexicon), NEW a \in Lexicon, NEW i, NEW k, Spans(i, k, <<a>>)
    PROVE  Here(i, a) /\ k = i + 1
<1>1. Len(Consumed(i, k)) = k - i /\ i \in Positions /\ k \in Positions /\ Consumed(i, k) = <<a>>
  BY ConsumedFacts DEF Spans
<1>2. k - i = 1
  BY <1>1
<1> QED
  <2> DEFINE s == <<a>>
  <2>1. s # << >> /\ s[1] = a
    BY OneIsSome
  <2> HIDE DEF s
  <2>2. Here(i, a)
    BY <2>1, SpansHead DEF s
  <2> QED
    BY <1>1, <1>2, <2>2, TextFacts

LEMMA SpansMore ==
    ASSUME text \in Seq(Lexicon), NEW a \in Lexicon, NEW s \in Seq(Lexicon), NEW i, NEW k,
           Spans(i, k, Join(<<a>>, s))
    PROVE  Here(i, a) /\ i + 1 \in Positions /\ Spans(i + 1, k, s)
<1>1. <<a>> \in Seq(Lexicon) /\ Len(<<a>>) = 1
  OBVIOUS
<1>2. PICK j \in Positions : j = i + 1 /\ Spans(i, j, <<a>>) /\ Spans(j, k, s)
  BY <1>1, SpansCut
<1> QED
  BY <1>2, SpansOne

----------------------------------------------------------------------------
(***************************************************************************)
(* What the combinators find.                                              *)
(***************************************************************************)
LEMMA FindsRow ==
    ASSUME NEW r, NEW s, NEW i \in Positions, NEW j, NEW k, NEW a, NEW b,
           Finds(r, i, j, a), Finds(s, j, k, b)
    PROVE  Finds(r ++ s, i, k, Join(a, b))
<1> DEFINE m == Match(j, a)   n == Match(k, b)
<1>1. m.to = j /\ m.built = a /\ n.to = k /\ n.built = b
  BY DEF Match
<1>2. r[i] = {m} /\ s[j] = {n}
  BY DEF Finds
<1>3. (r ++ s)[i] = UNION {{Match(y.to, x.built \o y.built) : y \in s[x.to]} : x \in r[i]}
  BY DEF ++, sequence
<1> HIDE DEF m, n
<1>4. (r ++ s)[i] = {Match(n.to, m.built \o n.built)}
  BY <1>1, <1>2, <1>3
<1> QED
  BY <1>1, <1>4 DEF Finds, Join

LEMMA FailsRow ==
    ASSUME NEW r, NEW s, NEW i \in Positions,
           Fails(r, i) \/ (\E j, a : Finds(r, i, j, a) /\ Fails(s, j))
    PROVE  Fails(r ++ s, i)
<1>1. (r ++ s)[i] = UNION {{Match(y.to, x.built \o y.built) : y \in s[x.to]} : x \in r[i]}
  BY DEF ++, sequence
<1>2. CASE Fails(r, i)
  BY <1>1, <1>2 DEF Fails
<1>3. ASSUME NEW j, NEW a, Finds(r, i, j, a), Fails(s, j) PROVE Fails(r ++ s, i)
  <2> DEFINE m == Match(j, a)
  <2>1. m.to = j /\ r[i] = {m} /\ s[j] = {}
    BY <1>3 DEF Match, Finds, Fails
  <2> HIDE DEF m
  <2> QED
    BY <1>1, <2>1 DEF Fails
<1> QED
  BY <1>2, <1>3

LEMMA FindsEither ==
    ASSUME NEW r, NEW s, NEW i \in Positions, NEW k, NEW b,
           Finds(r, i, k, b) \/ (Fails(r, i) /\ Finds(s, i, k, b))
    PROVE  Finds(r | s, i, k, b)
BY Alternative DEF Finds, Fails

LEMMA FailsEither ==
    ASSUME NEW r, NEW s, NEW i \in Positions, Fails(r, i), Fails(s, i)
    PROVE  Fails(r | s, i)
BY Alternative DEF Fails

LEMMA FindsProduction ==
    ASSUME NEW is, NEW r, NEW i \in Positions, NEW k, NEW b, Finds(r, i, k, b)
    PROVE  Finds(match_production(is, r), i, k, <<Node(is, b)>>)
<1> DEFINE m == Match(k, b)
<1>1. m.to = k /\ m.built = b /\ r[i] = {m}
  BY DEF Match, Finds
<1> HIDE DEF m
<1>2. match_production(is, r)[i] = {Match(m.to, <<Node(is, m.built)>>)}
  BY <1>1 DEF match_production
<1> QED
  BY <1>1, <1>2 DEF Finds

LEMMA FailsProduction ==
    ASSUME NEW is, NEW r, NEW i \in Positions, Fails(r, i)
    PROVE  Fails(match_production(is, r), i)
BY DEF match_production, Fails

LEMMA FindsNothing == \A i \in Positions : Finds(nothing, i, i, << >>)
BY DEF nothing, Finds

LEMMA FindsLexeme ==
    ASSUME text \in Seq(Lexicon), NEW lexeme, NEW built, NEW i \in Positions
    PROVE  /\ Here(i, lexeme) => Finds(MatchLexemes(<<lexeme>>, built), i, i + 1, built)
           /\ ~Here(i, lexeme) => Fails(MatchLexemes(<<lexeme>>, built), i)
BY OneLexeme DEF Here, Finds, Fails

LEMMA FindsString ==
    ASSUME text \in Seq(Lexicon), NEW lexeme, NEW i \in Positions
    PROVE  /\ Here(i, lexeme) => Finds(match_string(<<lexeme>>), i, i + 1, << >>)
           /\ ~Here(i, lexeme) => Fails(match_string(<<lexeme>>), i)
BY FindsLexeme DEF match_string

LEMMA FindsAny ==
    ASSUME NEW lexemes, NEW is, NEW i \in Positions, NEW w, Here(i, w)
    PROVE  /\ w \in lexemes => Finds(MatchAny(lexemes, is), i, i + 1, <<Leaf(is, w)>>)
           /\ w \notin lexemes => Fails(MatchAny(lexemes, is), i)
BY AnyLexeme DEF Here, Finds, Fails

LEMMA FindsName ==
    ASSUME NEW i \in Positions, NEW w, Here(i, w)
    PROVE  /\ w \in Words => Finds(match_identifier, i, i + 1, <<Leaf("identifier", w)>>)
           /\ w \notin Words => Fails(match_identifier, i)
           /\ w \in Numerals => Finds(match_number, i, i + 1, <<Leaf("number", w)>>)
           /\ w \notin Numerals => Fails(match_number, i)
BY FindsAny DEF match_identifier, match_number

LEMMA HereOnce == \A i, v, w : Here(i, v) /\ Here(i, w) => v = w
BY DEF Here

LEMMA HereNext == \A i, w : text \in Seq(Lexicon) /\ Here(i, w) => i + 1 \in Positions
BY TextFacts DEF Here

----------------------------------------------------------------------------
(***************************************************************************)
(* A list finds its elements, however many, if its rule finds each one and *)
(* fails at what follows the list.                                         *)
(***************************************************************************)
FindsAll(r, S, T) == \A x \in S : \A i, k : Spans(i, k, T[x]) => Finds(r, i, k, <<x>>)

LEMMA FirstAndRest ==
    ASSUME NEW S, NEW xs \in Seq(S), xs # << >>
    PROVE  \E x \in S : \E ys \in Seq(S) :
              xs = Join(<<x>>, ys) /\ Len(xs) = Len(ys) + 1 /\ x = xs[1]
<1>0. PICK n \in Nat : Len(xs) = n + 1
  <2>1. Len(xs) \in Nat /\ Len(xs) # 0
    BY EmptySeq, LenProperties
  <2>2. Len(xs) - 1 \in Nat /\ Len(xs) = (Len(xs) - 1) + 1
    BY <2>1
  <2> QED
    BY <2>2
<1> DEFINE x == Head(xs)   ys == Tail(xs)
<1>1. xs # << >> /\ n + 1 - 1 = n
  BY <1>0, EmptySeq
<1>2. /\ x \in S /\ x = xs[1] /\ ys \in Seq(S) /\ Len(ys) = n
      /\ \A i \in 1..n : ys[i] = xs[i + 1]
  <2>1. x = xs[1]
    BY <1>1
  <2> QED
    BY <1>0, <1>1, <2>1, HeadTailProperties
<1> DEFINE one == <<x>>
<1>3. one \in Seq(S) /\ Len(one) = 1 /\ one[1] = x
  BY <1>2
<1> HIDE DEF x, ys, one
<1>4. /\ one \o ys \in Seq(S) /\ Len(one \o ys) = n + 1
      /\ \A i \in 1..(n + 1) : (one \o ys)[i] = IF i <= 1 THEN one[i] ELSE ys[i - 1]
  <2>1. /\ one \o ys \in Seq(S) /\ Len(one \o ys) = Len(one) + Len(ys)
        /\ \A i \in 1..(Len(one) + Len(ys)) :
              (one \o ys)[i] = IF i <= Len(one) THEN one[i] ELSE ys[i - Len(one)]
    BY ONLY <1>2, <1>3, ConcatProperties, ZenonT(30)
  <2>2. Len(one) + Len(ys) = n + 1
    BY <1>2, <1>3
  <2> QED
    BY <1>3, <2>1, <2>2
<1>5. ASSUME NEW i \in 1..(n + 1) PROVE (one \o ys)[i] = xs[i]
  <2>1. CASE i = 1
    BY <1>2, <1>3, <1>4, <2>1
  <2>2. CASE i # 1
    <3>1. ~(i <= 1) /\ i - 1 \in 1..n /\ i - 1 + 1 = i
      BY <2>2
    <3>2. (one \o ys)[i] = ys[i - 1]
      BY <1>4, <3>1
    <3>3. ys[i - 1] = xs[i - 1 + 1]
      BY <1>2, <3>1
    <3> QED
      BY <3>1, <3>2, <3>3
  <2> QED
    BY <2>1, <2>2
<1>6. xs = one \o ys
  BY <1>0, <1>4, <1>5, SeqEqual
<1> QED
  BY <1>0, <1>2, <1>6, SMTT(30) DEF one, Join

LEMMA JoinLength ==
    \A S : \A x \in S : \A ys \in Seq(S) :
       Join(<<x>>, ys) \in Seq(S) /\ Len(Join(<<x>>, ys)) = 1 + Len(ys) /\ Len(ys) \in Nat
<1> SUFFICES ASSUME NEW S, NEW x \in S, NEW ys \in Seq(S)
             PROVE  Join(<<x>>, ys) \in Seq(S) /\ Len(Join(<<x>>, ys)) = 1 + Len(ys) /\ Len(ys) \in Nat
  OBVIOUS
<1> DEFINE one == <<x>>
<1>1. one \in Seq(S) /\ Len(one) = 1
  OBVIOUS
<1> HIDE DEF one
<1> QED
  BY <1>1, ConcatProperties, LenProperties DEF Join, one

\* By induction on the number of elements.
LEMMA FindsList ==
    ASSUME text \in Seq(Lexicon), NEW r, NEW S, NEW T \in TextsOf(S), Ahead(r), FindsAll(r, S, T),
           NEW xs \in Seq(S), NEW i, NEW k, Spans(i, k, Written(xs, T)), Fails(r, k)
    PROVE  Finds(list(r), i, k, xs)
<1> DEFINE Found(n) == \A ys \in Seq(S) : Len(ys) = n =>
                          \A j : Spans(j, k, Written(ys, T)) => Finds(list(r), j, k, ys)
<1>1. \A j \in Positions : list(r)[j] = ((r ++ list(r)) | nothing)[j]
  BY ListEquation
<1>2. \A j \in Positions : \A b : Finds((r ++ list(r)) | nothing, j, k, b) => Finds(list(r), j, k, b)
  BY <1>1 DEF Finds
<1>3. Found(0)
  <2> SUFFICES ASSUME NEW ys \in Seq(S), Len(ys) = 0, NEW j, Spans(j, k, Written(ys, T))
               PROVE  Finds(list(r), j, k, ys)
    OBVIOUS
  <2>1. ys = << >> /\ Written(ys, T) = << >>
    BY EmptySeq, WrittenOne
  <2>2. j = k /\ j \in Positions
    BY <2>1, SpansNone DEF Spans
  <2>3. Fails(r ++ list(r), j) /\ Finds(nothing, j, k, ys)
    BY <2>1, <2>2, FailsRow, FindsNothing
  <2> QED
    BY <1>2, <2>2, <2>3, FindsEither
<1>4. ASSUME NEW n \in Nat, Found(n) PROVE Found(n + 1)
  <2> SUFFICES ASSUME NEW ys \in Seq(S), Len(ys) = n + 1, NEW j, Spans(j, k, Written(ys, T))
               PROVE  Finds(list(r), j, k, ys)
    OBVIOUS
  <2>0. ys # << >>
    BY EmptySeq
  <2>1. PICK x \in S, zs \in Seq(S) : ys = Join(<<x>>, zs) /\ Len(zs) = n
    <3>1. PICK x \in S : \E zs \in Seq(S) : ys = Join(<<x>>, zs) /\ Len(ys) = Len(zs) + 1
      BY <2>0, FirstAndRest, ZenonT(30)
    <3>2. \A zs \in Seq(S) : Len(zs) \in Nat
      BY LenProperties
    <3> QED
      BY <3>1, <3>2
  <2> DEFINE a == T[x]   b == Written(zs, T)
  <2>2. a \in Seq(Lexicon) /\ b \in Seq(Lexicon) /\ Written(ys, T) = a \o b
    BY <2>1, WrittenFacts, WrittenCons, ZenonT(30) DEF TextsOf, Join
  <2> HIDE DEF a, b
  <2>3. PICK h \in Positions : Spans(j, h, a) /\ Spans(h, k, b)
    BY <2>2, SpansCut DEF Join
  <2>4. Finds(r, j, h, <<x>>)
    BY <2>3 DEF FindsAll, a
  <2>5. Finds(list(r), h, k, zs)
    BY <1>4, <2>1, <2>3 DEF b
  <2>6. j \in Positions
    BY DEF Spans
  <2>7. Finds(r ++ list(r), j, k, ys)
    BY <2>1, <2>4, <2>5, <2>6, FindsRow
  <2> QED
    BY <1>2, <2>6, <2>7, FindsEither
<1> DEFINE N == {n \in Nat : Found(n)}
<1>5. Nat \subseteq N
  <2>1. 0 \in N /\ \A n \in Nat : n \in N => n + 1 \in N
    BY <1>3, <1>4, SMTT(30)
  <2> HIDE DEF N
  <2> QED
    BY <2>1, InductiveSet
<1>6. Len(xs) \in Nat
  BY LenProperties
<1> QED
  BY <1>5, <1>6

\* What stands between two lexemes.
LEMMA FindsWithin ==
    ASSUME text \in Seq(Lexicon), NEW o \in Lexicon, NEW c \in Lexicon, NEW r, NEW B, NEW b \in Seq(B),
           NEW X \in Seq(Lexicon), NEW i, NEW k, Spans(i, k, Join(Join(<<o>>, X), <<c>>)),
           \A j, l : Spans(j, l, X) /\ Here(l, c) => Finds(r, j, l, b)
    PROVE  Finds((match_string(<<o>>) ++ r) ++ match_string(<<c>>), i, k, b)
<1> DEFINE first == <<o>>   last == <<c>>
<1>1. first \in Seq(Lexicon) /\ last \in Seq(Lexicon)
  OBVIOUS
<1> HIDE DEF first, last
<1>2. Join(first, X) \in Seq(Lexicon)
  BY <1>1, JoinFacts
<1>3. PICK l \in Positions : Spans(i, l, Join(first, X)) /\ Spans(l, k, last)
  BY <1>1, <1>2, SpansCut DEF first, last
<1>4. Here(i, o) /\ i + 1 \in Positions /\ Spans(i + 1, l, X)
  BY <1>3, SpansMore DEF first
<1>5. Here(l, c) /\ k = l + 1
  BY <1>3, SpansOne DEF last
<1>6. Finds(r, i + 1, l, b) /\ i \in Positions
  BY <1>4, <1>5 DEF Here
<1>7. Finds(match_string(<<o>>), i, i + 1, << >>) /\ Finds(match_string(<<c>>), l, k, << >>)
  BY <1>4, <1>5, <1>6, FindsString
<1>8. Join(<< >>, b) = b /\ Join(b, << >>) = b
  BY ConcatEmptySeq DEF Join
<1>9. Finds(match_string(<<o>>) ++ r, i, l, b)
  BY <1>6, <1>7, <1>8, FindsRow
<1> QED
  BY <1>6, <1>7, <1>8, <1>9, FindsRow

LEMMA FindsBlock ==
    ASSUME text \in Seq(Lexicon), NEW r, NEW S, NEW T \in TextsOf(S), Ahead(r), FindsAll(r, S, T),
           \A j : Here(j, "}") => Fails(r, j),
           NEW is, NEW keyword \in Lexicon, NEW xs \in Seq(S), NEW i, NEW k,
           Spans(i, k, Block(keyword, xs, T))
    PROVE  Finds(match_production(is, match_keyword(keyword) ++ bracketed(list(r))), i, k, <<Node(is, xs)>>)
<1> DEFINE X == Written(xs, T)   o == "{"   c == "}"   rest == Join(Join(<<o>>, X), <<c>>)
<1>1. o \in Lexicon /\ c \in Lexicon /\ <<o>> \in Seq(Lexicon) /\ <<c>> \in Seq(Lexicon)
  BY SymbolsInLexicon
<1>2. X \in Seq(Lexicon)
  BY WrittenFacts
<1>3. \A j, l : Spans(j, l, X) /\ Here(l, c) => Finds(list(r), j, l, xs)
  BY FindsList
<1>4. Spans(i, k, Join(<<keyword>>, rest))
  BY DEF Block
<1>5. bracketed(list(r)) = (match_string(<<o>>) ++ list(r)) ++ match_string(<<c>>)
  BY DEF bracketed
<1> HIDE DEF X, o, c
<1>6. rest \in Seq(Lexicon)
  BY <1>1, <1>2, JoinFacts
<1>7. Here(i, keyword) /\ i + 1 \in Positions /\ Spans(i + 1, k, rest) /\ i \in Positions
  <2> HIDE DEF rest
  <2>1. Here(i, keyword) /\ i + 1 \in Positions /\ Spans(i + 1, k, rest)
    BY <1>4, <1>6, SpansMore
  <2> QED
    BY <2>1 DEF Here
<1>8. Finds(bracketed(list(r)), i + 1, k, xs)
  BY <1>1, <1>2, <1>3, <1>5, <1>7, FindsWithin
<1>9. Finds(match_keyword(keyword), i, i + 1, << >>)
  BY <1>7, FindsString DEF match_keyword
<1>10. Join(<< >>, xs) = xs
  BY ConcatEmptySeq DEF Join
<1>11. Finds(match_keyword(keyword) ++ bracketed(list(r)), i, k, xs)
  BY <1>7, <1>8, <1>9, <1>10, FindsRow
<1> QED
  BY <1>7, <1>11, FindsProduction

----------------------------------------------------------------------------
(***************************************************************************)
(* What the rules of the grammar find, whatever they try first.            *)
(***************************************************************************)
LEMMA Distinct ==
    /\ \A w \in Words : w \notin Numerals /\ w \notin Marks
    /\ \A n \in Numerals : n \notin Words /\ n \notin Marks /\ n \notin Literals
    /\ \A m \in Marks : m \notin Words /\ m \notin Numerals
BY LexemesAssumption

LEMMA SpansThree ==
    ASSUME text \in Seq(Lexicon), NEW a \in Lexicon, NEW b \in Lexicon, NEW c \in Lexicon, NEW i, NEW k,
           Spans(i, k, <<a, b, c>>)
    PROVE  Here(i, a) /\ Here(i + 1, b) /\ Here(i + 1 + 1, c) /\ k = i + 1 + 1 + 1
<1> DEFINE u == <<b>>   v == <<c>>
<1>1. u \in Seq(Lexicon) /\ v \in Seq(Lexicon)
  OBVIOUS
<1>2. Spans(i, k, Join(<<a>>, Join(u, v)))
  BY ThreeLexemes
<1> HIDE DEF u, v
<1>3. Join(u, v) \in Seq(Lexicon)
  BY <1>1, JoinFacts
<1>4. Here(i, a) /\ Spans(i + 1, k, Join(u, v))
  BY <1>2, <1>3, SpansMore
<1>5. Here(i + 1, b) /\ Spans(i + 1 + 1, k, v)
  BY <1>1, <1>4, SpansMore DEF u
<1> QED
  BY <1>4, <1>5, SpansOne DEF v

LEMMA FindsAccessor ==
    ASSUME text \in Seq(Lexicon), NEW a \in Accessors, NEW i, NEW k, Spans(i, k, AccessorText(a)),
           ~Here(k, ".")
    PROVE  Finds(member_accessor_grammar, i, k, <<a>>)
<1> DEFINE id == match_identifier   dot == match_string(<<".">>)   more == dot ++ id
<1>1. member_accessor_grammar = match_production("accessor", id ++ (more | nothing))
  BY DEF member_accessor_grammar, may
<1>2. i \in Positions /\ k \in Positions
  BY DEF Spans
<1>3. CASE \E v \in Words : a = Node("accessor", <<Leaf("identifier", v)>>)
  <2>1. PICK v \in Words : a = Node("accessor", <<Leaf("identifier", v)>>)
    BY <1>3
  <2>2. Spans(i, k, <<v>>) /\ v \in Lexicon
    BY <2>1, AccessorShape, SymbolsInLexicon
  <2>3. Here(i, v) /\ k = i + 1
    BY <2>2, SpansOne
  <2> DEFINE leaf == <<Leaf("identifier", v)>>
  <2>4. Finds(id, i, k, leaf)
    BY <1>2, <2>3, FindsName
  <2>5. Fails(dot, k)
    BY <1>2, FindsString
  <2>6. Join(leaf, << >>) = leaf
    BY JoinTuples
  <2> HIDE DEF id, dot, leaf
  <2>7. Fails(more, k)
    BY <1>2, <2>5, FailsRow
  <2> HIDE DEF more
  <2>8. Finds(more | nothing, k, k, << >>)
    BY <1>2, <2>7, FindsNothing, FindsEither
  <2>9. Finds(id ++ (more | nothing), i, k, leaf)
    BY <1>2, <2>4, <2>6, <2>8, FindsRow
  <2> QED
    BY <1>1, <1>2, <2>1, <2>9, FindsProduction DEF leaf
<1>4. CASE \E v, w \in Words : a = AccessorOf(v, w)
  <2>1. PICK v \in Words, w \in Words : a = AccessorOf(v, w)
    BY <1>4
  <2>2. Spans(i, k, <<v, ".", w>>) /\ v \in Lexicon /\ "." \in Lexicon /\ w \in Lexicon
    BY <2>1, AccessorShape, SymbolsInLexicon DEF AccessorOf
  <2>3. Here(i, v) /\ Here(i + 1, ".") /\ Here(i + 1 + 1, w) /\ k = i + 1 + 1 + 1
    BY <2>2, SpansThree
  <2>4. i + 1 \in Positions /\ i + 1 + 1 \in Positions
    BY <2>3 DEF Here
  <2> DEFINE x == <<Leaf("identifier", v)>>   y == <<Leaf("identifier", w)>>
  <2>5. Finds(id, i, i + 1, x) /\ Finds(id, i + 1 + 1, k, y) /\ Finds(dot, i + 1, i + 1 + 1, << >>)
    BY <1>2, <2>3, <2>4, FindsName, FindsString
  <2>6. Join(<< >>, y) = y /\ Join(x, y) = <<Leaf("identifier", v), Leaf("identifier", w)>>
    BY JoinTuples
  <2> HIDE DEF id, dot, x, y
  <2>7. Finds(more, i + 1, k, y)
    BY <2>4, <2>5, <2>6, FindsRow
  <2> HIDE DEF more
  <2>8. Finds(more | nothing, i + 1, k, y)
    BY <2>4, <2>7, FindsEither
  <2>9. Finds(id ++ (more | nothing), i, k, <<Leaf("identifier", v), Leaf("identifier", w)>>)
    BY <1>2, <2>5, <2>6, <2>8, FindsRow
  <2> QED
    BY <1>1, <1>2, <2>1, <2>9, FindsProduction DEF AccessorOf
<1> QED
  BY <1>3, <1>4, AccessorCases

LEMMA NoAccessor ==
    ASSUME text \in Seq(Lexicon), NEW i, NEW w, Here(i, w)
    PROVE  /\ w \notin Words => Fails(member_accessor_grammar, i)
           /\ w \notin Words \/ ~Here(i + 1, ".") => Fails(strict_member_accessor_grammar, i)
<1> DEFINE id == match_identifier   dot == match_string(<<".">>)   more == may(dot ++ id)
<1>1. i \in Positions /\ i + 1 \in Positions
  BY HereNext DEF Here
<1>2. /\ member_accessor_grammar = match_production("accessor", id ++ more)
      /\ strict_member_accessor_grammar = match_production("accessor", (id ++ dot) ++ id)
  BY DEF member_accessor_grammar, strict_member_accessor_grammar
<1>3. w \notin Words => Fails(id, i)
  BY <1>1, FindsName
<1>4. w \in Words /\ ~Here(i + 1, ".") =>
         Finds(id, i, i + 1, <<Leaf("identifier", w)>>) /\ Fails(dot, i + 1)
  BY <1>1, FindsName, FindsString
<1> HIDE DEF id, dot, more
<1>5. w \notin Words => Fails(id ++ more, i)
  BY <1>1, <1>3, FailsRow
<1>6. w \notin Words \/ ~Here(i + 1, ".") => Fails(id ++ dot, i)
  BY <1>1, <1>3, <1>4, FailsRow
<1> DEFINE s == id ++ dot
<1> HIDE DEF s
<1>7. w \notin Words \/ ~Here(i + 1, ".") => Fails(s ++ id, i)
  BY <1>1, <1>6, FailsRow DEF s
<1> QED
  BY <1>1, <1>2, <1>5, <1>7, FailsProduction DEF s

LEMMA FindsStrict ==
    ASSUME text \in Seq(Lexicon), NEW v \in Words, NEW w \in Words, NEW i, NEW k, Spans(i, k, <<v, ".", w>>)
    PROVE  Finds(strict_member_accessor_grammar, i, k, <<AccessorOf(v, w)>>)
<1> DEFINE id == match_identifier   dot == match_string(<<".">>)
<1>1. strict_member_accessor_grammar = match_production("accessor", (id ++ dot) ++ id)
  BY DEF strict_member_accessor_grammar
<1>2. i \in Positions
  BY DEF Spans
<1>3. Here(i, v) /\ Here(i + 1, ".") /\ Here(i + 1 + 1, w) /\ k = i + 1 + 1 + 1
  <2>1. v \in Lexicon /\ w \in Lexicon /\ "." \in Lexicon
    BY SymbolsInLexicon
  <2> QED
    BY <2>1, SpansThree
<1>4. i + 1 \in Positions /\ i + 1 + 1 \in Positions
  BY <1>3 DEF Here
<1> DEFINE x == <<Leaf("identifier", v)>>   y == <<Leaf("identifier", w)>>
<1>5. Finds(id, i, i + 1, x) /\ Finds(id, i + 1 + 1, k, y) /\ Finds(dot, i + 1, i + 1 + 1, << >>)
  BY <1>2, <1>3, <1>4, FindsName, FindsString
<1>6. Join(x, << >>) = x /\ Join(x, y) = <<Leaf("identifier", v), Leaf("identifier", w)>>
  BY JoinTuples
<1> HIDE DEF id, dot, x, y
<1>7. Finds(id ++ dot, i, i + 1 + 1, x)
  BY <1>2, <1>5, <1>6, FindsRow
<1> DEFINE s == id ++ dot
<1> HIDE DEF s
<1>8. Finds(s ++ id, i, k, <<Leaf("identifier", v), Leaf("identifier", w)>>)
  BY <1>2, <1>5, <1>6, <1>7, FindsRow DEF s
<1> QED
  BY <1>1, <1>2, <1>8, FindsProduction DEF AccessorOf, s

LEMMA SpansTwo ==
    ASSUME text \in Seq(Lexicon), NEW a \in Lexicon, NEW b \in Lexicon, NEW i, NEW k, Spans(i, k, <<a, b>>)
    PROVE  Here(i, a) /\ Here(i + 1, b) /\ k = i + 1 + 1
<1> DEFINE u == <<b>>
<1>1. u \in Seq(Lexicon)
  OBVIOUS
<1>2. Spans(i, k, Join(<<a>>, u))
  BY JoinTuples
<1> HIDE DEF u
<1>3. Here(i, a) /\ Spans(i + 1, k, u)
  BY <1>1, <1>2, SpansMore
<1> QED
  BY <1>3, SpansOne DEF u

LEMMA FindsTwo ==
    ASSUME text \in Seq(Lexicon), NEW first, NEW second, NEW built, NEW i \in Positions
    PROVE  /\ Here(i, first) /\ Here(i + 1, second) =>
                 Finds(MatchLexemes(<<first, second>>, built), i, i + 1 + 1, built)
           /\ ~(Here(i, first) /\ Here(i + 1, second)) => Fails(MatchLexemes(<<first, second>>, built), i)
<1>1. i \in Nat /\ Len(text) \in Nat /\ Positions = 1..(Len(text) + 1)
  BY TextFacts
<1>2. /\ i + 1 + 1 = i + 2
      /\ Here(i, first) /\ Here(i + 1, second) <=>
            i + 1 <= Len(text) /\ text[i] = first /\ text[i + 1] = second
  BY <1>1 DEF Here
<1> DEFINE k == i + 2
<1>3. MatchLexemes(<<first, second>>, built)[i] =
         IF i + 1 <= Len(text) /\ text[i] = first /\ text[i + 1] = second
         THEN {Match(k, built)} ELSE {}
  BY TwoLexemes
<1>4. i + 1 + 1 = k
  BY <1>2
<1> HIDE DEF k
<1> QED
  BY <1>2, <1>3, <1>4 DEF Finds, Fails

LEMMA FirstOfSix ==
    ASSUME NEW a, NEW b, NEW c, NEW d, NEW e, NEW f, NEW i \in Positions, NEW k, NEW x,
           \/ Finds(a, i, k, x)
           \/ Fails(a, i) /\ Finds(b, i, k, x)
           \/ Fails(a, i) /\ Fails(b, i) /\ Finds(c, i, k, x)
           \/ Fails(a, i) /\ Fails(b, i) /\ Fails(c, i) /\ Finds(d, i, k, x)
           \/ Fails(a, i) /\ Fails(b, i) /\ Fails(c, i) /\ Fails(d, i) /\ Finds(e, i, k, x)
           \/ Fails(a, i) /\ Fails(b, i) /\ Fails(c, i) /\ Fails(d, i) /\ Fails(e, i) /\ Finds(f, i, k, x)
    PROVE  Finds(a | b | c | d | e | f, i, k, x)
<1> DEFINE l == a | b   m == l | c   n == m | d   o == n | e
<1>1. /\ Finds(a, i, k, x) \/ (Fails(a, i) /\ Finds(b, i, k, x)) => Finds(l, i, k, x)
      /\ Fails(a, i) /\ Fails(b, i) => Fails(l, i)
  BY FindsEither, FailsEither
<1> HIDE DEF l
<1>2. /\ Finds(l, i, k, x) \/ (Fails(l, i) /\ Finds(c, i, k, x)) => Finds(m, i, k, x)
      /\ Fails(l, i) /\ Fails(c, i) => Fails(m, i)
  BY FindsEither, FailsEither
<1> HIDE DEF m
<1>3. /\ Finds(m, i, k, x) \/ (Fails(m, i) /\ Finds(d, i, k, x)) => Finds(n, i, k, x)
      /\ Fails(m, i) /\ Fails(d, i) => Fails(n, i)
  BY FindsEither, FailsEither
<1> HIDE DEF n
<1>4. /\ Finds(n, i, k, x) \/ (Fails(n, i) /\ Finds(e, i, k, x)) => Finds(o, i, k, x)
      /\ Fails(n, i) /\ Fails(e, i) => Fails(o, i)
  BY FindsEither, FailsEither
<1> HIDE DEF o
<1>5. Finds(o, i, k, x) \/ (Fails(o, i) /\ Finds(f, i, k, x)) => Finds(o | f, i, k, x)
  BY FindsEither
<1>6. Finds(o | f, i, k, x)
  BY <1>1, <1>2, <1>3, <1>4, <1>5
<1> QED
  BY <1>6 DEF l, m, n, o

\* The longer operators come first; what follows an operator is not a second `='.
LEMMA FindsCondition ==
    ASSUME text \in Seq(Lexicon), NEW op \in Operations, NEW i, NEW k, Spans(i, k, Symbols[op]), ~Here(k, "=")
    PROVE  Finds(condition_grammar, i, k, <<Leaf("operator", op)>>)
<1> DEFINE a == condition_operand(<<">", "=">>)   b == condition_operand(<<">">>)
           c == condition_operand(<<"<", "=">>)   d == condition_operand(<<"<">>)
           e == condition_operand(<<"=", "=">>)   f == condition_operand(<<"!", "=">>)
           x == <<Leaf("operator", op)>>
<1>0. i \in Positions
  BY DEF Spans
<1>1. condition_grammar = (a | b | c | d | e | f)
  BY DEF condition_grammar
<1>2. ASSUME NEW u, NEW o
      PROVE  /\ compare_operator[<<u>>] = o /\ Here(i, u) =>
                   Finds(condition_operand(<<u>>), i, i + 1, <<Leaf("operator", o)>>)
             /\ ~Here(i, u) => Fails(condition_operand(<<u>>), i)
  BY <1>0, FindsLexeme DEF condition_operand, match_operand
<1>3. ASSUME NEW u, NEW v, NEW o
      PROVE  /\ compare_operator[<<u, v>>] = o /\ Here(i, u) /\ Here(i + 1, v) =>
                   Finds(condition_operand(<<u, v>>), i, i + 1 + 1, <<Leaf("operator", o)>>)
             /\ ~(Here(i, u) /\ Here(i + 1, v)) => Fails(condition_operand(<<u, v>>), i)
  BY <1>0, FindsTwo DEF condition_operand, match_operand
<1>4. /\ ~(Here(i, ">") /\ Here(i + 1, "=")) => Fails(a, i)
      /\ ~Here(i, ">") => Fails(b, i)
      /\ ~(Here(i, "<") /\ Here(i + 1, "=")) => Fails(c, i)
      /\ ~Here(i, "<") => Fails(d, i)
      /\ ~(Here(i, "=") /\ Here(i + 1, "=")) => Fails(e, i)
  BY <1>2, <1>3
<1>5. /\ op = "GREATER_EQUAL" /\ Here(i, ">") /\ Here(i + 1, "=") => Finds(a, i, i + 1 + 1, x)
      /\ op = "GREATER" /\ Here(i, ">") => Finds(b, i, i + 1, x)
      /\ op = "LESS_EQUAL" /\ Here(i, "<") /\ Here(i + 1, "=") => Finds(c, i, i + 1 + 1, x)
      /\ op = "LESS" /\ Here(i, "<") => Finds(d, i, i + 1, x)
      /\ op = "EQUAL" /\ Here(i, "=") /\ Here(i + 1, "=") => Finds(e, i, i + 1 + 1, x)
      /\ op = "DIFFERENT" /\ Here(i, "!") /\ Here(i + 1, "=") => Finds(f, i, i + 1 + 1, x)
  BY <1>2, <1>3, CompareOperator
<1> HIDE DEF a, b, c, d, e, f
<1>6. \A u, v : v # u => ~(Here(i, u) /\ Here(i, v))
  BY HereOnce
<1>7. ">" \in Lexicon /\ "<" \in Lexicon /\ "=" \in Lexicon /\ "!" \in Lexicon
  BY DEF Lexicon, Marks
<1>8. \A u, v \in Lexicon : /\ Symbols[op] = <<u>> => Here(i, u) /\ k = i + 1
                            /\ Symbols[op] = <<u, v>> => Here(i, u) /\ Here(i + 1, v) /\ k = i + 1 + 1
  <2> TAKE u, v \in Lexicon
  <2>1. Symbols[op] = <<u>> => Here(i, u) /\ k = i + 1
    BY SpansOne
  <2>2. Symbols[op] = <<u, v>> => Here(i, u) /\ Here(i + 1, v) /\ k = i + 1 + 1
    BY SpansTwo
  <2> QED
    BY <2>1, <2>2
<1>9. /\ op = "GREATER_EQUAL" => Here(i, ">") /\ Here(i + 1, "=") /\ k = i + 1 + 1
      /\ op = "GREATER" => Here(i, ">") /\ k = i + 1
      /\ op = "LESS_EQUAL" => Here(i, "<") /\ Here(i + 1, "=") /\ k = i + 1 + 1
      /\ op = "LESS" => Here(i, "<") /\ k = i + 1
      /\ op = "EQUAL" => Here(i, "=") /\ Here(i + 1, "=") /\ k = i + 1 + 1
      /\ op = "DIFFERENT" => Here(i, "!") /\ Here(i + 1, "=") /\ k = i + 1 + 1
  BY <1>7, <1>8, SymbolsInLexicon
<1>10. CASE op = "GREATER_EQUAL"
  BY <1>5, <1>9, <1>10, <1>0, FirstOfSix, <1>1
<1>11. CASE op = "GREATER"
  BY <1>4, <1>5, <1>9, <1>11, <1>0, FirstOfSix, <1>1
<1>12. CASE op = "LESS_EQUAL"
  BY <1>4, <1>5, <1>6, <1>9, <1>12, <1>0, FirstOfSix, <1>1
<1>13. CASE op = "LESS"
  BY <1>4, <1>5, <1>6, <1>9, <1>13, <1>0, FirstOfSix, <1>1
<1>14. CASE op = "EQUAL"
  BY <1>4, <1>5, <1>6, <1>9, <1>14, <1>0, FirstOfSix, <1>1
<1>15. CASE op = "DIFFERENT"
  BY <1>4, <1>5, <1>6, <1>9, <1>15, <1>0, FirstOfSix, <1>1
<1> QED
  BY <1>10, <1>11, <1>12, <1>13, <1>14, <1>15 DEF Operations

LEMMA NoneOfSix ==
    ASSUME NEW a, NEW b, NEW c, NEW d, NEW e, NEW f, NEW i \in Positions,
           Fails(a, i), Fails(b, i), Fails(c, i), Fails(d, i), Fails(e, i), Fails(f, i)
    PROVE  Fails(a | b | c | d | e | f, i)
<1> DEFINE l == a | b | c   m == l | d | e
<1>1. Fails(l, i)
  BY FailsEither
<1> HIDE DEF l
<1>2. Fails(m, i)
  BY <1>1, FailsEither
<1> HIDE DEF m
<1>3. Fails(m | f, i)
  BY <1>2, FailsEither
<1> QED
  BY <1>3 DEF l, m

LEMMA FindsEnd ==
    ASSUME text \in Seq(Lexicon), NEW i, Here(i, ";")
    PROVE  Finds(semicol, i, i + 1, << >>)
<1>1. i \in Positions
  BY DEF Here
<1> QED
  BY <1>1, FindsString DEF semicol

LEMMA OperatorHead == \A op \in Operations : Symbols[op] # << >> /\ Symbols[op][1] # "."
<1>1. \A a, b : <<a>> # << >> /\ <<a, b>> # << >> /\ <<a>>[1] = a /\ <<a, b>>[1] = a
  <2> TAKE a, b
  <2>1. Len(<<a>>) = 1 /\ Len(<<a, b>>) = 2 /\ Len(<< >>) = 0
    OBVIOUS
  <2> QED
    BY <2>1
<1> SUFFICES ASSUME NEW op \in Operations PROVE Symbols[op] # << >> /\ Symbols[op][1] # "."
  OBVIOUS
<1>2. \/ op = "EQUAL" \/ op = "DIFFERENT" \/ op = "GREATER"
      \/ op = "GREATER_EQUAL" \/ op = "LESS" \/ op = "LESS_EQUAL"
  BY DEF Operations
<1>3. \E a, b : a # "." /\ (Symbols[op] = <<a>> \/ Symbols[op] = <<a, b>>)
  BY <1>2, SymbolsInLexicon
<1> QED
  BY <1>1, <1>3

LEMMA FindsPrecondition ==
    ASSUME text \in Seq(Lexicon)
    PROVE  /\ FindsAll(precondition_statement, Preconditions, PreconditionTexts)
           /\ \A j : Here(j, "}") => Fails(precondition_statement, j)
<1> DEFINE m == member_accessor_grammar   c == condition_grammar   n == match_number   s == semicol
           r == m ++ c   q == r ++ n
<1>1. precondition_statement = match_production("precondition", q ++ s)
  BY DEF precondition_statement
<1>2. ASSUME NEW p \in Preconditions, NEW i, NEW k, Spans(i, k, PreconditionTexts[p])
      PROVE  Finds(precondition_statement, i, k, <<p>>)
  <2>1. PICK a \in Accessors, op \in Operations, number \in Numerals :
           p = Node("precondition", <<a, Leaf("operator", op), Leaf("number", number)>>)
    BY PreconditionShape
  <2> DEFINE A == AccessorText(a)   S == Symbols[op]   end == <<number, ";">>
  <2>2. PreconditionTexts[p] = Join(Join(A, S), end)
    BY <2>1, PreconditionShape, PreconditionTextType
  <2>3. number \in Lexicon /\ ";" \in Lexicon
    BY SymbolsInLexicon
  <2>4. A \in Seq(Lexicon) /\ S \in Seq(Lexicon) /\ end \in Seq(Lexicon)
    <3>1. A \in Seq(Lexicon)
      BY AccessorTextType
    <3>2. S \in Seq(Lexicon)
      BY SymbolsInLexicon DEF Operations
    <3>3. end \in Seq(Lexicon)
      BY <2>3, PairInLexicon
    <3> QED
      BY <3>1, <3>2, <3>3
  <2>5. S # << >> /\ S[1] # "."
    BY OperatorHead
  <2> HIDE DEF A, S, end
  <2>6. PICK l \in Positions : Spans(i, l, Join(A, S)) /\ Spans(l, k, end)
    BY <1>2, <2>2, <2>4, JoinFacts, SpansCut, ZenonT(30)
  <2>7. PICK j \in Positions : Spans(i, j, A) /\ Spans(j, l, S)
    BY <2>4, <2>6, SpansCut
  <2>8. Here(l, number) /\ Here(l + 1, ";") /\ k = l + 1 + 1
    BY <2>3, <2>6, SpansTwo DEF end
  <2>9. ~Here(j, ".") /\ ~Here(l, "=") /\ l + 1 \in Positions /\ i \in Positions
    <3>1. Here(j, S[1])
      BY <2>5, <2>7, SpansHead
    <3>2. number # "="
      BY Distinct DEF Marks
    <3>3. l + 1 \in Positions /\ i \in Positions
      BY <2>6, <2>8 DEF Here, Spans
    <3> QED
      BY <2>5, <2>8, <3>1, <3>2, <3>3, HereOnce
  <2> DEFINE x == Leaf("operator", op)   y == Leaf("number", number)
  <2>10. /\ Finds(m, i, j, <<a>>) /\ Finds(c, j, l, <<x>>)
         /\ Finds(n, l, l + 1, <<y>>) /\ Finds(s, l + 1, k, << >>)
    BY <2>7, <2>8, <2>9, FindsAccessor, FindsCondition, FindsName, FindsEnd DEF A, S
  <2> HIDE DEF m, c, n, s, x, y
  <2>11. /\ Join(<<a>>, <<x>>) = <<a, x>> /\ Join(<<a, x>>, <<y>>) = <<a, x, y>>
         /\ Join(<<a, x, y>>, << >>) = <<a, x, y>>
    BY JoinTuples
  <2>12. Finds(r, i, l, <<a, x>>)
    BY <2>9, <2>10, <2>11, FindsRow
  <2> HIDE DEF r
  <2>13. Finds(q, i, l + 1, <<a, x, y>>)
    BY <2>9, <2>10, <2>11, <2>12, FindsRow
  <2> HIDE DEF q
  <2>14. Finds(q ++ s, i, k, <<a, x, y>>)
    BY <2>9, <2>10, <2>11, <2>13, FindsRow
  <2> QED
    BY <1>1, <2>1, <2>9, <2>14, FindsProduction DEF x, y
<1>3. ASSUME NEW j, Here(j, "}") PROVE Fails(precondition_statement, j)
  <2>1. j \in Positions
    BY <1>3 DEF Here
  <2>2. Fails(m, j)
    BY <1>3, NoAccessor, Distinct DEF Marks
  <2> HIDE DEF m, c, n, s
  <2>3. Fails(r, j)
    BY <2>1, <2>2, FailsRow
  <2> HIDE DEF r
  <2>4. Fails(q, j)
    BY <2>1, <2>3, FailsRow
  <2> HIDE DEF q
  <2> QED
    BY <1>1, <2>1, <2>4, FailsRow, FailsProduction
<1> QED
  BY <1>2, <1>3 DEF FindsAll

LEMMA ReadsAhead ==
    ASSUME text \in Seq(Lexicon), NEW r, NEW S, NEW T, Reads(r, OneOf(S, T)), \A x \in S : T[x] # << >>
    PROVE  Ahead(r)
<1>1. \A p \in OneOf(S, T) : p[2] # << >>
  <2> SUFFICES ASSUME NEW x \in S, NEW p, p = <<<<x>>, T[x]>> PROVE p[2] # << >>
    BY DEF OneOf
  <2> DEFINE u == <<x>>   v == T[x]
  <2>1. v # << >> /\ p = <<u, v>>
    OBVIOUS
  <2> HIDE DEF u, v
  <2> QED
    BY <2>1, PairParts
<1> QED
  BY <1>1, ReadsForward

LEMMA FindsPre ==
    ASSUME text \in Seq(Lexicon), NEW xs \in Seq(Preconditions), NEW i, NEW k,
           Spans(i, k, Block("pre", xs, PreconditionTexts))
    PROVE  Finds(capability_pre_statement, i, k, <<Node("pre", xs)>>)
<1>1. Ahead(precondition_statement) /\ PreconditionTexts \in TextsOf(Preconditions)
  BY PreconditionReads, PreconditionTextType, ReadsAhead
<1> DEFINE keyword == "pre"
<1>2. keyword \in Lexicon
  BY SymbolsInLexicon
<1>3. capability_pre_statement =
         match_production("pre", match_keyword(keyword) ++ bracketed(list(precondition_statement)))
  BY DEF capability_pre_statement
<1> HIDE DEF keyword
<1> QED
  BY <1>1, <1>2, <1>3, FindsPrecondition, FindsBlock DEF keyword

----------------------------------------------------------------------------
(***************************************************************************)
(* An expression that is not empty begins with an item that is not a       *)
(* parenthesis, or with an expression in parentheses.                      *)
(***************************************************************************)
LEMMA CutAt ==
    ASSUME NEW S, NEW ys \in Seq(S), NEW h \in 0..Len(ys)
    PROVE  \E us \in Seq(S) : \E vs \in Seq(S) : ys = Join(us, vs) /\ Len(us) = h
<1> DEFINE n == Len(ys)   us == SubSeq(ys, 1, h)   vs == SubSeq(ys, h + 1, n)
<1>1. n \in Nat /\ h \in Nat /\ h <= n
  BY LenProperties
<1>2. us \in Seq(S) /\ Len(us) = h
  <2>1. 1 \in 1..(n + 1) /\ h \in 0..n /\ (1 <= h => h - 1 + 1 = h) /\ (~(1 <= h) => h = 0)
    BY <1>1
  <2>2. us \in Seq(S) /\ Len(us) = IF 1 <= h THEN h - 1 + 1 ELSE 0
    BY <2>1, SubSeqProperties
  <2> QED
    BY <2>1, <2>2
<1>3. vs \in Seq(S)
  <2>1. h + 1 \in 1..(n + 1) /\ n \in 0..n
    BY <1>1, SMTT(30)
  <2> QED
    BY <2>1, SubSeqProperties
<1>4. us \o vs = ys
  <2>1. 1 \in 1..(n + 1) /\ h \in (1 - 1)..n /\ n \in h..n /\ n = Len(ys)
    BY <1>1
  <2>2. us \o vs = SubSeq(ys, 1, n)
    BY <2>1, ConcatAdjacentSubSeq
  <2>3. SubSeq(ys, 1, n) = ys
    BY SubSeqFull
  <2> QED
    BY <2>2, <2>3, ZenonT(30)
<1> QED
  BY <1>2, <1>3, <1>4 DEF Join

\* The item at which the parentheses that are open come to be one fewer.
LEMMA FirstClose ==
    ASSUME NEW ys, NEW n \in Nat, 0 <= n,
           \A j \in 0..n : Count(Close, ys, j) <= Count(Open, ys, j) + 1,
           Count(Close, ys, n) = Count(Open, ys, n) + 1
    PROVE  \E h \in Nat : /\ h + 1 <= n /\ ys[h + 1] = Close
                          /\ \A j \in 0..h : Count(Close, ys, j) <= Count(Open, ys, j)
                          /\ Count(Close, ys, h) = Count(Open, ys, h)
<1> DEFINE S == {j \in 0..n : \A k \in 0..j : Count(Close, ys, k) <= Count(Open, ys, k)}
<1>1. \A j \in Nat : Count(Close, ys, j) \in Nat /\ Count(Open, ys, j) \in Nat
  BY CountFacts
<1>2. Count(Close, ys, 0) = 0 /\ Count(Open, ys, 0) = 0
  BY CountFacts
<1>3. S \subseteq 0..n /\ 0 \in S
  BY <1>2
<1>4. PICK h \in S : \A m \in S : m <= h
  <2> HIDE DEF S
  <2> QED
    BY <1>3, LargestNumber
<1>5. h \in Nat /\ h <= n /\ \A k \in 0..h : Count(Close, ys, k) <= Count(Open, ys, k)
  OBVIOUS
<1>6. h # n
  <2>1. n \in 0..n
    OBVIOUS
  <2> QED
    BY <1>1, <1>5, <2>1
<1>7. h + 1 \in 0..n /\ h + 1 \notin S /\ h \in 0..n /\ h \in 0..h
  BY <1>4, <1>5, <1>6
<1>8. Count(Close, ys, h + 1) = Count(Open, ys, h + 1) + 1
  <2>1. PICK k \in 0..(h + 1) : ~(Count(Close, ys, k) <= Count(Open, ys, k))
    BY <1>7
  <2>2. k = h + 1
    BY <1>5, <2>1
  <2> QED
    BY <1>1, <1>5, <1>7, <2>1, <2>2
<1>9. /\ Count(Close, ys, h + 1) = Count(Close, ys, h) + (IF ys[h + 1] = Close THEN 1 ELSE 0)
      /\ Count(Open, ys, h + 1) = Count(Open, ys, h) + (IF ys[h + 1] = Open THEN 1 ELSE 0)
  BY <1>5, CountFacts
<1>10. Count(Close, ys, h) <= Count(Open, ys, h)
  BY <1>5, <1>7
<1>11. Open # Close
  BY DEF Open, Close, Leaf
<1>12. ys[h + 1] = Close
  BY <1>1, <1>5, <1>8, <1>9, <1>10
<1>13. Count(Close, ys, h) = Count(Open, ys, h)
  BY <1>1, <1>5, <1>8, <1>9, <1>10, <1>11, <1>12
<1> QED
  BY <1>5, <1>6, <1>7, <1>12, <1>13

\* The counts of a sequence of two parts.
Sums(u, s, n, t, m) ==
    /\ n \in Nat /\ m \in Nat /\ Len(u) = n + m
    /\ \A x : \A k \in 0..n : Count(x, u, k) = Count(x, s, k)
    /\ \A x : \A k \in 0..m : Count(x, u, n + k) = Count(x, s, n) + Count(x, t, k)

LEMMA CountJoin ==
    ASSUME NEW S, NEW s \in Seq(S), NEW t \in Seq(S)
    PROVE  Sums(Join(s, t), s, Len(s), t, Len(t))
<1> DEFINE u == s \o t   n == Len(s)   m == Len(t)
<1>1. n \in Nat /\ m \in Nat /\ Len(u) = n + m /\ Joined(u, s, n, t, m)
  BY JoinedConcat
<1> HIDE DEF u, n, m
<1>2. \A x : \A k \in 0..n : Count(x, u, k) = Count(x, s, k)
  BY <1>1, CountLeft
<1>3. \A x : \A k \in 0..m : Count(x, u, n + k) = Count(x, s, n) + Count(x, t, k)
  BY <1>1, CountConcat
<1>4. Sums(u, s, n, t, m)
  BY <1>1, <1>2, <1>3 DEF Sums
<1> QED
  BY <1>4 DEF u, n, m, Join

\* Balanced, with the count before the first item.
LEMMA BalancedIs ==
    ASSUME NEW S, NEW s \in Seq(S)
    PROVE  Balanced(s) <=> /\ \A k \in 0..Len(s) : Count(Close, s, k) <= Count(Open, s, k)
                           /\ Count(Close, s, Len(s)) = Count(Open, s, Len(s))
<1>1. Len(s) \in Nat /\ DOMAIN s = 1..Len(s)
  BY LenProperties
<1>2. Count(Close, s, 0) = 0 /\ Count(Open, s, 0) = 0
  BY CountFacts
<1>3. \A k \in 0..Len(s) : k = 0 \/ k \in 1..Len(s)
  BY <1>1
<1>4. \A k \in 1..Len(s) : k \in 0..Len(s)
  BY <1>1
<1> QED
  BY <1>1, <1>2, <1>3, <1>4 DEF Balanced

\* A balanced sequence begins with an item that is no parenthesis, or with a balanced part in parentheses.
LEMMA BalancedSplit ==
    ASSUME NEW S, NEW xs \in Seq(S), xs # << >>, Balanced(xs)
    PROVE  \/ \E x \in S : \E ys \in Seq(S) :
                 x # Open /\ x # Close /\ xs = Join(<<x>>, ys) /\ Balanced(ys)
           \/ \E us \in Seq(S) : \E vs \in Seq(S) :
                 /\ xs = Join(<<Open>>, Join(us, Join(<<Close>>, vs)))
                 /\ Balanced(us) /\ Balanced(vs)
<1>1. PICK x \in S : \E ys \in Seq(S) : xs = Join(<<x>>, ys)
  BY FirstAndRest
<1>2. PICK ys \in Seq(S) : xs = Join(<<x>>, ys)
  BY <1>1
<1> DEFINE one == <<x>>   n == Len(ys)
<1>3. one \in Seq(S) /\ Len(one) = 1 /\ xs = Join(one, ys)
  BY <1>2
<1>4. \A y : Count(y, one, 1) = IF x = y THEN 1 ELSE 0
  BY CountOne
<1>5. Open # Close
  BY DEF Open, Close, Leaf
<1> HIDE DEF one
<1>6. /\ n \in Nat /\ Len(xs) = 1 + n
      /\ \A y : \A k \in 0..n : Count(y, xs, 1 + k) = Count(y, one, 1) + Count(y, ys, k)
  <2>1. Sums(xs, one, 1, ys, n)
    <3>1. Sums(Join(one, ys), one, Len(one), ys, Len(ys))
      BY <1>3, CountJoin
    <3> QED
      BY <1>3, <3>1
  <2> QED
    BY <2>1 DEF Sums
<1>7. /\ \A k \in 0..Len(xs) : Count(Close, xs, k) <= Count(Open, xs, k)
      /\ Count(Close, xs, Len(xs)) = Count(Open, xs, Len(xs))
  BY BalancedIs
<1> HIDE DEF n
<1>8. \A k \in 0..n : 1 + k \in 0..Len(xs)
  BY <1>6
<1>9. \A y : \A k \in Nat : Count(y, ys, k) \in Nat
  BY CountFacts
<1>10. /\ \A k \in 0..n : Count(Close, one, 1) + Count(Close, ys, k) <= Count(Open, one, 1) + Count(Open, ys, k)
       /\ Count(Close, one, 1) + Count(Close, ys, n) = Count(Open, one, 1) + Count(Open, ys, n)
  <2>1. n \in 0..n
    BY <1>6
  <2> QED
    BY <1>6, <1>7, <1>8, <2>1
<1>11. x # Close
  <2>1. 0 \in 0..n /\ Count(Close, ys, 0) = 0 /\ Count(Open, ys, 0) = 0
    BY <1>6, CountFacts
  <2>2. Count(Close, one, 1) + 0 <= Count(Open, one, 1) + 0
    BY <1>10, <2>1
  <2> QED
    BY <1>4, <1>5, <2>2
<1>12. CASE x # Open
  <2>1. Count(Close, one, 1) = 0 /\ Count(Open, one, 1) = 0
    BY <1>4, <1>11, <1>12
  <2>2. \A k \in 0..n : Count(Close, ys, k) \in Nat /\ Count(Open, ys, k) \in Nat /\ k \in Nat
    BY <1>6, <1>9
  <2>3. /\ \A k \in 0..n : Count(Close, ys, k) <= Count(Open, ys, k)
        /\ Count(Close, ys, n) = Count(Open, ys, n)
    <3>1. n \in 0..n
      BY <1>6
    <3> QED
      BY <1>10, <2>1, <2>2, <3>1
  <2>4. Balanced(ys)
    BY <2>3, BalancedIs DEF n
  <2> QED
    BY <1>2, <1>11, <1>12, <2>4
<1>13. CASE x = Open
  <2>1. Count(Close, one, 1) = 0 /\ Count(Open, one, 1) = 1
    BY <1>4, <1>5, <1>13
  <2>2. \A k \in 0..n : Count(Close, ys, k) \in Nat /\ Count(Open, ys, k) \in Nat /\ k \in Nat
    BY <1>6, <1>9
  <2>3. /\ \A k \in 0..n : Count(Close, ys, k) <= Count(Open, ys, k) + 1
        /\ Count(Close, ys, n) = Count(Open, ys, n) + 1
    <3>1. n \in 0..n
      BY <1>6
    <3> QED
      BY <1>10, <2>1, <2>2, <3>1
  <2>4. PICK h \in Nat : /\ h + 1 <= n /\ ys[h + 1] = Close
                         /\ \A j \in 0..h : Count(Close, ys, j) <= Count(Open, ys, j)
                         /\ Count(Close, ys, h) = Count(Open, ys, h)
    BY <1>6, <2>3, FirstClose
  <2>5. h \in 0..Len(ys)
    BY <1>6, <2>4 DEF n
  <2>6. PICK us \in Seq(S) : \E ws \in Seq(S) : ys = Join(us, ws) /\ Len(us) = h
    BY <2>5, CutAt
  <2>7. PICK ws \in Seq(S) : ys = Join(us, ws) /\ Len(us) = h
    BY <2>6
  <2>8. /\ n = h + Len(ws) /\ Len(ws) \in Nat
        /\ \A y : \A k \in 0..h : Count(y, ys, k) = Count(y, us, k)
        /\ \A y : \A k \in 0..Len(ws) : Count(y, ys, h + k) = Count(y, us, h) + Count(y, ws, k)
    <3>1. Sums(Join(us, ws), us, Len(us), ws, Len(ws))
      BY CountJoin
    <3>2. Sums(ys, us, h, ws, Len(ws)) /\ n = Len(ys)
      BY <2>7, <3>1 DEF n
    <3> QED
      BY <3>2 DEF Sums
  <2>9. Balanced(us)
    <3>1. h \in 0..h
      OBVIOUS
    <3> QED
      BY <2>4, <2>7, <2>8, <3>1, BalancedIs
  <2>10. ws # << >> /\ ws[1] = Close
    <3>1. Len(ws) # 0
      BY <2>4, <2>8
    <3>2. ws # << >>
      BY <3>1
    <3>3. ys[h + 1] = ws[1]
      <4>2. Joined(us \o ws, us, Len(us), ws, Len(ws))
        BY JoinedConcat
      <4>3. 1 \in 1..Len(ws)
        BY <2>8, <3>1
      <4> QED
        BY <2>7, <4>2, <4>3 DEF Joined, Join
    <3> QED
      BY <2>4, <3>2, <3>3
  <2>11. PICK c \in S : \E vs \in Seq(S) : ws = Join(<<c>>, vs) /\ c = ws[1]
    BY <2>10, FirstAndRest
  <2>12. PICK vs \in Seq(S) : ws = Join(<<Close>>, vs)
    BY <2>10, <2>11
  <2> DEFINE close == <<Close>>   m == Len(vs)
  <2>13. close \in Seq(S) /\ Len(close) = 1 /\ ws = Join(close, vs)
    BY <2>10, <2>11, <2>12
  <2>14. Count(Close, close, 1) = 1 /\ Count(Open, close, 1) = 0
    BY <1>5, CountOne
  <2> HIDE DEF close
  <2>15. /\ m \in Nat /\ Len(ws) = 1 + m
         /\ \A y : \A k \in 0..m : Count(y, ws, 1 + k) = Count(y, close, 1) + Count(y, vs, k)
    <3>1. Sums(Join(close, vs), close, Len(close), vs, Len(vs))
      BY <2>13, CountJoin
    <3>2. Sums(ws, close, 1, vs, m)
      BY <2>13, <3>1
    <3> QED
      BY <3>2 DEF Sums
  <2> HIDE DEF m
  <2>16. ASSUME NEW k \in 0..m
         PROVE  /\ Count(Close, ys, h + (1 + k)) = Count(Close, us, h) + (1 + Count(Close, vs, k))
                /\ Count(Open, ys, h + (1 + k)) = Count(Open, us, h) + (0 + Count(Open, vs, k))
                /\ h + (1 + k) \in 0..n
    <3>1. 1 + k \in 0..Len(ws) /\ h + (1 + k) \in 0..n
      BY <2>8, <2>15
    <3> QED
      BY <2>8, <2>14, <2>15, <3>1
  <2>17. Count(Close, us, h) = Count(Open, us, h) /\ Count(Open, us, h) \in Nat
    <3>1. h \in 0..h
      OBVIOUS
    <3> QED
      BY <2>4, <2>8, <3>1, CountFacts
  <2>18. \A k \in Nat : Count(Close, vs, k) \in Nat /\ Count(Open, vs, k) \in Nat
    BY CountFacts
  <2>19. /\ \A k \in 0..m : Count(Close, vs, k) <= Count(Open, vs, k)
         /\ Count(Close, vs, m) = Count(Open, vs, m)
    <3>1. ASSUME NEW k \in 0..m PROVE Count(Close, vs, k) <= Count(Open, vs, k)
      <4>1. Count(Close, ys, h + (1 + k)) <= Count(Open, ys, h + (1 + k)) + 1
        BY <2>3, <2>16
      <4>2. k \in Nat
        BY <2>15
      <4>3. Count(Close, vs, k) \in Nat /\ Count(Open, vs, k) \in Nat
        BY <2>18, <4>2
      <4> QED
        BY <2>16, <2>17, <4>1, <4>3
    <3>2. m \in 0..m /\ m \in Nat /\ h + (1 + m) = n
      BY <2>8, <2>15
    <3>3. Count(Close, ys, h + (1 + m)) = Count(Open, ys, h + (1 + m)) + 1
      BY <2>3, <3>2
    <3>4. Count(Close, vs, m) \in Nat /\ Count(Open, vs, m) \in Nat
      BY <2>18, <3>2
    <3>5. Count(Close, vs, m) = Count(Open, vs, m)
      BY <2>16, <2>17, <3>2, <3>3, <3>4, SMTT(30)
    <3> QED
      BY <3>1, <3>5
  <2>20. Balanced(vs)
    BY <2>19, BalancedIs DEF m
  <2>21. xs = Join(<<Open>>, Join(us, Join(<<Close>>, vs)))
    BY <1>2, <1>13, <2>7, <2>12
  <2> QED
    BY <2>9, <2>20, <2>21
<1> QED
  BY <1>12, <1>13

----------------------------------------------------------------------------
(***************************************************************************)
(* Expressions.                                                            *)
(***************************************************************************)
LEMMA ItemCases ==
    ASSUME NEW x \in Items
    PROVE  \/ x = Open \/ x = Close
           \/ \E n \in Numerals : x = Leaf("number", n)
           \/ \E b \in Literals : x = Leaf("bool", b)
           \/ \E w \in Words : w \notin Literals /\ x = Leaf("identifier", w)
           \/ \E v, w \in Words : v \notin Literals /\ x \in Members /\ x = AccessorOf(v, w)
           \/ x = Leaf("level 1", "ADD") \/ x = Leaf("level 1", "SUBTRACT")
           \/ x = Leaf("level 2", "MULTIPLY") \/ x = Leaf("level 2", "DIVIDE")
<1>1. \/ x \in Numbers \/ x \in Leaves("bool", Literals) \/ x \in Names
      \/ x \in Members \/ x \in Leaves("level 1", {"ADD", "SUBTRACT"})
      \/ x \in Leaves("level 2", {"MULTIPLY", "DIVIDE"}) \/ x = Open \/ x = Close
  BY ZenonT(30) DEF Items, Operands, Operators
<1>2. CASE x \in Members
  <2>1. x.parts \in Names \X Identifiers /\ x = Node("accessor", x.parts)
    BY <1>2, InNodes DEF Members
  <2>2. PICK a \in Names, b \in Identifiers : x.parts = <<a, b>>
    BY <2>1
  <2>3. PICK v \in Words : v \notin Literals /\ a = Leaf("identifier", v)
    BY DEF Names, Leaves
  <2>4. PICK w \in Words : b = Leaf("identifier", w)
    BY DEF Identifiers, Leaves
  <2>5. x = AccessorOf(v, w)
    BY <2>1, <2>2, <2>3, <2>4 DEF AccessorOf
  <2> QED
    BY <1>2, <2>3, <2>5
<1>3. CASE x \in Numbers \/ x \in Leaves("bool", Literals) \/ x \in Names
  BY <1>3 DEF Numbers, Names, Leaves
<1>4. CASE x \in Leaves("level 1", {"ADD", "SUBTRACT"}) \/ x \in Leaves("level 2", {"MULTIPLY", "DIVIDE"})
  BY <1>4 DEF Leaves
<1> QED
  BY <1>1, <1>2, <1>3, <1>4

\* The lexemes of an item and where they stand.
LEMMA SpansItem ==
    ASSUME text \in Seq(Lexicon), NEW x \in Items, NEW i, NEW k, Spans(i, k, ItemTexts[x])
    PROVE  /\ \A n \in Numerals : x = Leaf("number", n) => Here(i, n) /\ k = i + 1
           /\ \A b \in Literals : x = Leaf("bool", b) => Here(i, b) /\ k = i + 1
           /\ \A w \in Words : x = Leaf("identifier", w) => Here(i, w) /\ k = i + 1
           /\ \A v, w \in Words : x \in Members /\ x = AccessorOf(v, w) =>
                 Here(i, v) /\ Spans(i, k, <<v, ".", w>>)
           /\ x = Leaf("level 1", "ADD") => Here(i, "+") /\ k = i + 1
           /\ x = Leaf("level 1", "SUBTRACT") => Here(i, "-") /\ k = i + 1
           /\ x = Leaf("level 2", "MULTIPLY") => Here(i, "*") /\ k = i + 1
           /\ x = Leaf("level 2", "DIVIDE") => Here(i, "/") /\ k = i + 1
           /\ x = Open => Here(i, "(") /\ k = i + 1
           /\ x = Close => Here(i, ")") /\ k = i + 1
<1>1. ItemTexts[x] = ItemText(x)
  BY ItemTextType
<1>2. \A a \in Lexicon : ItemText(x) = <<a>> => Here(i, a) /\ k = i + 1
  BY <1>1, SpansOne
<1>3. /\ "+" \in Lexicon /\ "-" \in Lexicon /\ "*" \in Lexicon /\ "/" \in Lexicon
      /\ "(" \in Lexicon /\ ")" \in Lexicon /\ "." \in Lexicon
      /\ Words \subseteq Lexicon /\ Numerals \subseteq Lexicon /\ Literals \subseteq Lexicon
  BY DEF Lexicon, Marks
<1>4. /\ \A n \in Numerals : ItemText(Leaf("number", n)) = <<n>>
      /\ \A b \in Literals : ItemText(Leaf("bool", b)) = <<b>>
      /\ \A w \in Words : ItemText(Leaf("identifier", w)) = <<w>>
  BY ItemTextIs DEF Literals
<1>5. /\ ItemText(Leaf("level 1", "ADD")) = <<"+">> /\ ItemText(Leaf("level 1", "SUBTRACT")) = <<"-">>
      /\ ItemText(Leaf("level 2", "MULTIPLY")) = <<"*">> /\ ItemText(Leaf("level 2", "DIVIDE")) = <<"/">>
      /\ ItemText(Open) = <<"(">> /\ ItemText(Close) = <<")">>
  BY ItemTextIs
<1>6. ASSUME NEW v \in Words, NEW w \in Words, x \in Members, x = AccessorOf(v, w)
      PROVE  Here(i, v) /\ Spans(i, k, <<v, ".", w>>)
  <2>1. ItemText(x) = <<v, ".", w>>
    BY <1>6, ItemTextIs, AccessorShape DEF AccessorOf
  <2>2. v \in Lexicon /\ w \in Lexicon
    BY <1>3
  <2> QED
    BY <1>1, <1>3, <2>1, <2>2, SpansThree
<1>7. /\ \A n \in Numerals : x = Leaf("number", n) => Here(i, n) /\ k = i + 1
      /\ \A b \in Literals : x = Leaf("bool", b) => Here(i, b) /\ k = i + 1
      /\ \A w \in Words : x = Leaf("identifier", w) => Here(i, w) /\ k = i + 1
  BY <1>2, <1>3, <1>4
<1> QED
  BY <1>2, <1>3, <1>5, <1>6, <1>7

LEMMA ItemHead ==
    ASSUME text \in Seq(Lexicon), NEW x \in Items, NEW i, NEW k, Spans(i, k, ItemTexts[x])
    PROVE  \E a : Here(i, a) /\ a # "."
<1>1. \A w \in Words \cup Numerals \cup Literals : w # "."
  BY Distinct DEF Marks, Literals
<1> SUFFICES ASSUME ~ \E a : Here(i, a) /\ a # "." PROVE FALSE
  OBVIOUS
<1>2. /\ \A n \in Numerals : x # Leaf("number", n)
      /\ \A b \in Literals : x # Leaf("bool", b)
      /\ \A w \in Words : x # Leaf("identifier", w)
  BY <1>1, SpansItem
<1>3. \A v, w \in Words : ~(x \in Members /\ x = AccessorOf(v, w))
  BY <1>1, SpansItem
<1>4. /\ x # Leaf("level 1", "ADD") /\ x # Leaf("level 1", "SUBTRACT")
      /\ x # Leaf("level 2", "MULTIPLY") /\ x # Leaf("level 2", "DIVIDE")
      /\ x # Open /\ x # Close
  <2>1. /\ x = Leaf("level 1", "ADD") => Here(i, "+")
        /\ x = Leaf("level 1", "SUBTRACT") => Here(i, "-")
        /\ x = Leaf("level 2", "MULTIPLY") => Here(i, "*")
        /\ x = Leaf("level 2", "DIVIDE") => Here(i, "/")
        /\ x = Open => Here(i, "(")
        /\ x = Close => Here(i, ")")
    BY SpansItem
  <2>2. ~Here(i, "+") /\ ~Here(i, "-") /\ ~Here(i, "*") /\ ~Here(i, "/") /\ ~Here(i, "(") /\ ~Here(i, ")")
    OBVIOUS
  <2> QED
    BY <2>1, <2>2
<1> QED
  BY <1>2, <1>3, <1>4, ItemCases

LEMMA ItemsHead ==
    ASSUME text \in Seq(Lexicon), NEW xs \in Seq(Items), NEW i, NEW k, Spans(i, k, Written(xs, ItemTexts)),
           ~Here(k, ".")
    PROVE  ~Here(i, ".")
<1>1. CASE xs = << >>
  BY <1>1, WrittenOne, ItemTextType, SpansNone
<1>2. CASE xs # << >>
  <2>1. PICK x \in Items : \E ys \in Seq(Items) : xs = Join(<<x>>, ys)
    BY <1>2, FirstAndRest, ZenonT(30)
  <2>2. PICK ys \in Seq(Items) : xs = Join(<<x>>, ys)
    BY <2>1
  <2> DEFINE a == ItemTexts[x]   b == Written(ys, ItemTexts)
  <2>3. a \in Seq(Lexicon) /\ b \in Seq(Lexicon) /\ Written(xs, ItemTexts) = Join(a, b)
    BY <2>2, ItemTextType, WrittenFacts, WrittenCons, ZenonT(30) DEF TextsOf, Join
  <2> HIDE DEF a, b
  <2>4. PICK j \in Positions : Spans(i, j, a)
    BY <2>3, SpansCut
  <2>5. \E c : Here(i, c) /\ c # "."
    BY <2>4, ItemHead DEF a
  <2> QED
    BY <2>5, HereOnce
<1> QED
  BY <1>1, <1>2

\* The alternatives of an item, in their order.
LEMMA ItemIs ==
    ASSUME NEW e
    PROVE  item(e) = (match_number | bool_literal_grammar | strict_member_accessor_grammar | match_identifier
                        | parenthesised(operand(e)) | level_1_grammar | level_2_grammar)
BY DEF item, base_grammar

\* A lexeme at which no operand begins, but perhaps an operator.
LEMMA NoOperand ==
    ASSUME text \in Seq(Lexicon), NEW i, NEW w, Here(i, w), w \in Marks, w # "(", NEW e
    PROVE  /\ Fails(match_number, i) /\ Fails(bool_literal_grammar, i)
           /\ Fails(strict_member_accessor_grammar, i) /\ Fails(match_identifier, i)
           /\ Fails(parenthesised(operand(e)), i)
<1>1. i \in Positions
  BY DEF Here
<1>2. w \notin Words /\ w \notin Numerals /\ w # "true" /\ w # "false"
  BY Distinct DEF Marks
<1>3. Fails(match_number, i) /\ Fails(match_identifier, i) /\ Fails(strict_member_accessor_grammar, i)
  BY <1>1, <1>2, FindsName, NoAccessor
<1>4. Fails(bool_literal_grammar, i)
  <2>1. ~Here(i, "true") /\ ~Here(i, "false")
    BY <1>2, HereOnce
  <2> QED
    BY <1>1, <2>1, FindsLexeme, FailsEither DEF bool_literal_grammar, match_operand
<1>5. Fails(parenthesised(operand(e)), i)
  <2> DEFINE o == match_string(<<"(">>)   p == operand(e)   c == match_string(<<")">>)   r == o ++ p
  <2>1. Fails(o, i)
    BY <1>1, HereOnce, FindsString
  <2>2. parenthesised(operand(e)) = r ++ c
    BY DEF parenthesised
  <2> HIDE DEF o, p, c
  <2>3. Fails(r, i)
    BY <1>1, <2>1, FailsRow
  <2> HIDE DEF r
  <2> QED
    BY <1>1, <2>2, <2>3, FailsRow
<1> QED
  BY <1>3, <1>4, <1>5

LEMMA FindsBool ==
    ASSUME text \in Seq(Lexicon), NEW i, NEW w, Here(i, w)
    PROVE  /\ w \in Literals => Finds(bool_literal_grammar, i, i + 1, <<Leaf("bool", w)>>)
           /\ w \notin Literals => Fails(bool_literal_grammar, i)
<1> DEFINE t == match_operand(<<"true">>, Leaf("bool", "true"))
           f == match_operand(<<"false">>, Leaf("bool", "false"))
<1>1. i \in Positions
  BY DEF Here
<1>2. /\ Here(i, "true") => Finds(t, i, i + 1, <<Leaf("bool", "true")>>)
      /\ ~Here(i, "true") => Fails(t, i)
      /\ Here(i, "false") => Finds(f, i, i + 1, <<Leaf("bool", "false")>>)
      /\ ~Here(i, "false") => Fails(f, i)
  BY <1>1, FindsLexeme DEF match_operand
<1>3. bool_literal_grammar = (t | f)
  BY DEF bool_literal_grammar
<1>4. /\ w # "true" => ~Here(i, "true")
      /\ w # "false" => ~Here(i, "false")
  BY HereOnce
<1> HIDE DEF t, f
<1>5. CASE w = "true"
  BY <1>1, <1>2, <1>3, <1>5, FindsEither DEF Literals
<1>6. CASE w = "false"
  BY <1>1, <1>2, <1>3, <1>4, <1>6, FindsEither DEF Literals
<1>7. CASE w \notin Literals
  BY <1>1, <1>2, <1>3, <1>4, <1>7, FailsEither DEF Literals
<1> QED
  BY <1>5, <1>6, <1>7 DEF Literals

LEMMA FindsLevel ==
    ASSUME text \in Seq(Lexicon), NEW i
    PROVE  /\ Here(i, "+") => Finds(level_1_grammar, i, i + 1, <<Leaf("level 1", "ADD")>>)
           /\ Here(i, "-") => Finds(level_1_grammar, i, i + 1, <<Leaf("level 1", "SUBTRACT")>>)
           /\ Here(i, "*") => Finds(level_2_grammar, i, i + 1, <<Leaf("level 2", "MULTIPLY")>>)
           /\ Here(i, "/") => Finds(level_2_grammar, i, i + 1, <<Leaf("level 2", "DIVIDE")>>)
           /\ \A w : Here(i, w) /\ w # "+" /\ w # "-" => Fails(level_1_grammar, i)
           /\ \A w : Here(i, w) /\ w # "*" /\ w # "/" => Fails(level_2_grammar, i)
<1> DEFINE a == expression_operand("level 1", "+")   b == expression_operand("level 1", "-")
           c == expression_operand("level 2", "*")   d == expression_operand("level 2", "/")
<1>1. level_1_grammar = (a | b) /\ level_2_grammar = (c | d)
  BY DEF level_1_grammar, level_2_grammar
<1>2. /\ operator_exec["+"] = "ADD" /\ operator_exec["-"] = "SUBTRACT"
      /\ operator_exec["*"] = "MULTIPLY" /\ operator_exec["/"] = "DIVIDE"
  BY DEF operator_exec
<1>3. /\ a = MatchLexemes(<<"+">>, <<Leaf("level 1", "ADD")>>)
      /\ b = MatchLexemes(<<"-">>, <<Leaf("level 1", "SUBTRACT")>>)
      /\ c = MatchLexemes(<<"*">>, <<Leaf("level 2", "MULTIPLY")>>)
      /\ d = MatchLexemes(<<"/">>, <<Leaf("level 2", "DIVIDE")>>)
  BY <1>2 DEF expression_operand, match_operand
<1> HIDE DEF a, b, c, d
<1>4. CASE i \in Positions
  <2>1. /\ Here(i, "+") => Finds(a, i, i + 1, <<Leaf("level 1", "ADD")>>)
        /\ ~Here(i, "+") => Fails(a, i)
        /\ Here(i, "-") => Finds(b, i, i + 1, <<Leaf("level 1", "SUBTRACT")>>)
        /\ ~Here(i, "-") => Fails(b, i)
    BY <1>3, <1>4, FindsLexeme
  <2>2. /\ Here(i, "*") => Finds(c, i, i + 1, <<Leaf("level 2", "MULTIPLY")>>)
        /\ ~Here(i, "*") => Fails(c, i)
        /\ Here(i, "/") => Finds(d, i, i + 1, <<Leaf("level 2", "DIVIDE")>>)
        /\ ~Here(i, "/") => Fails(d, i)
    BY <1>3, <1>4, FindsLexeme
  <2>3. \A v, w : v # w /\ Here(i, v) => ~Here(i, w)
    BY HereOnce
  <2>4. /\ Here(i, "+") => Finds(a | b, i, i + 1, <<Leaf("level 1", "ADD")>>)
        /\ Here(i, "-") => Finds(a | b, i, i + 1, <<Leaf("level 1", "SUBTRACT")>>)
        /\ \A w : Here(i, w) /\ w # "+" /\ w # "-" => Fails(a | b, i)
    BY <1>4, <2>1, <2>3, FindsEither, FailsEither
  <2>5. /\ Here(i, "*") => Finds(c | d, i, i + 1, <<Leaf("level 2", "MULTIPLY")>>)
        /\ Here(i, "/") => Finds(c | d, i, i + 1, <<Leaf("level 2", "DIVIDE")>>)
        /\ \A w : Here(i, w) /\ w # "*" /\ w # "/" => Fails(c | d, i)
    BY <1>4, <2>2, <2>3, FindsEither, FailsEither
  <2> QED
    BY <1>1, <2>4, <2>5
<1>5. CASE i \notin Positions
  BY <1>5 DEF Here
<1> QED
  BY <1>4, <1>5

\* One item of an expression, other than a parenthesis.
LEMMA FindsOneItem ==
    ASSUME text \in Seq(Lexicon), NEW x \in Items, x # Open, x # Close, NEW i, NEW k,
           Spans(i, k, ItemTexts[x]), ~Here(k, "."), NEW e
    PROVE  Finds(item(e), i, k, <<x>>)
<1> DEFINE n == match_number   b == bool_literal_grammar   s == strict_member_accessor_grammar
           d == match_identifier   p == parenthesised(operand(e))
           v1 == level_1_grammar   v2 == level_2_grammar   r == n | b | s | d | p | v1
<1>1. item(e) = (r | v2)
  BY ItemIs
<1>2. i \in Positions
  BY DEF Spans
<1>3. CASE \E m \in Numerals : x = Leaf("number", m)
  <2>1. PICK m \in Numerals : x = Leaf("number", m)
    BY <1>3
  <2>2. Finds(n, i, k, <<x>>)
    BY <1>2, <2>1, SpansItem, FindsName, ZenonT(30)
  <2> HIDE DEF n, b, s, d, p, v1, v2
  <2>3. Finds(r, i, k, <<x>>)
    BY <1>2, <2>2, FirstOfSix
  <2> QED
    BY <1>1, <1>2, <2>3, FindsEither
<1>4. CASE \E w \in Literals : x = Leaf("bool", w)
  <2>1. PICK w \in Literals : x = Leaf("bool", w)
    BY <1>4
  <2>2. Here(i, w) /\ k = i + 1 /\ w \notin Numerals
    BY <2>1, SpansItem, Distinct
  <2>3. Fails(n, i) /\ Finds(b, i, k, <<x>>)
    BY <1>2, <2>1, <2>2, FindsName, FindsBool
  <2> HIDE DEF n, b, s, d, p, v1, v2
  <2>4. Finds(r, i, k, <<x>>)
    BY <1>2, <2>3, FirstOfSix
  <2> QED
    BY <1>1, <1>2, <2>4, FindsEither
<1>5. CASE \E w \in Words : w \notin Literals /\ x = Leaf("identifier", w)
  <2>1. PICK w \in Words : w \notin Literals /\ x = Leaf("identifier", w)
    BY <1>5
  <2>2. Here(i, w) /\ k = i + 1 /\ w \notin Numerals
    BY <2>1, SpansItem, Distinct
  <2>3. Fails(n, i) /\ Fails(b, i) /\ Fails(s, i) /\ Finds(d, i, k, <<x>>)
    BY <1>2, <2>1, <2>2, FindsName, FindsBool, NoAccessor
  <2> HIDE DEF n, b, s, d, p, v1, v2
  <2>4. Finds(r, i, k, <<x>>)
    BY <1>2, <2>3, FirstOfSix
  <2> QED
    BY <1>1, <1>2, <2>4, FindsEither
<1>6. CASE \E v, w \in Words : v \notin Literals /\ x \in Members /\ x = AccessorOf(v, w)
  <2>1. PICK v \in Words, w \in Words : v \notin Literals /\ x \in Members /\ x = AccessorOf(v, w)
    BY <1>6
  <2>2. Here(i, v) /\ Spans(i, k, <<v, ".", w>>) /\ v \notin Numerals
    BY <2>1, SpansItem, Distinct
  <2>3. Fails(n, i) /\ Fails(b, i) /\ Finds(s, i, k, <<x>>)
    BY <1>2, <2>1, <2>2, FindsName, FindsBool, FindsStrict
  <2> HIDE DEF n, b, s, d, p, v1, v2
  <2>4. Finds(r, i, k, <<x>>)
    BY <1>2, <2>3, FirstOfSix
  <2> QED
    BY <1>1, <1>2, <2>4, FindsEither
<1>7. CASE x = Leaf("level 1", "ADD") \/ x = Leaf("level 1", "SUBTRACT")
  <2>1. PICK w \in {"+", "-"} : Here(i, w) /\ Finds(v1, i, k, <<x>>)
    <3>1. x = Leaf("level 1", "ADD") => Here(i, "+") /\ k = i + 1
      BY SpansItem
    <3>2. x = Leaf("level 1", "SUBTRACT") => Here(i, "-") /\ k = i + 1
      BY SpansItem
    <3>3. /\ Here(i, "+") => Finds(v1, i, i + 1, <<Leaf("level 1", "ADD")>>)
          /\ Here(i, "-") => Finds(v1, i, i + 1, <<Leaf("level 1", "SUBTRACT")>>)
      BY FindsLevel
    <3> HIDE DEF v1
    <3> QED
      BY <1>7, <3>1, <3>2, <3>3
  <2>2. w \in Marks /\ w # "("
    BY DEF Marks
  <2>3. Fails(n, i) /\ Fails(b, i) /\ Fails(s, i) /\ Fails(d, i) /\ Fails(p, i)
    BY <2>1, <2>2, NoOperand
  <2> HIDE DEF n, b, s, d, p, v1, v2
  <2>4. Finds(r, i, k, <<x>>)
    BY <1>2, <2>1, <2>3, FirstOfSix
  <2> QED
    BY <1>1, <1>2, <2>4, FindsEither
<1>8. CASE x = Leaf("level 2", "MULTIPLY") \/ x = Leaf("level 2", "DIVIDE")
  <2>1. PICK w \in {"*", "/"} : Here(i, w) /\ Finds(v2, i, k, <<x>>)
    <3>1. x = Leaf("level 2", "MULTIPLY") => Here(i, "*") /\ k = i + 1
      BY SpansItem
    <3>2. x = Leaf("level 2", "DIVIDE") => Here(i, "/") /\ k = i + 1
      BY SpansItem
    <3>3. /\ Here(i, "*") => Finds(v2, i, i + 1, <<Leaf("level 2", "MULTIPLY")>>)
          /\ Here(i, "/") => Finds(v2, i, i + 1, <<Leaf("level 2", "DIVIDE")>>)
      BY FindsLevel
    <3> HIDE DEF v2
    <3> QED
      BY <1>8, <3>1, <3>2, <3>3
  <2>2. w \in Marks /\ w # "(" /\ w # "+" /\ w # "-"
    BY DEF Marks
  <2>3. Fails(n, i) /\ Fails(b, i) /\ Fails(s, i) /\ Fails(d, i) /\ Fails(p, i) /\ Fails(v1, i)
    BY <2>1, <2>2, NoOperand, FindsLevel
  <2> HIDE DEF n, b, s, d, p, v1, v2
  <2>4. Fails(r, i)
    BY <1>2, <2>3, NoneOfSix
  <2> QED
    BY <1>1, <1>2, <2>1, <2>4, FindsEither
<1> QED
  BY <1>3, <1>4, <1>5, <1>6, <1>7, <1>8, ItemCases

LEMMA FindsNested ==
    ASSUME text \in Seq(Lexicon), NEW e, NEW us \in Seq(Items), NEW i, NEW l,
           Here(i, "("), Finds(e, i + 1, l, us), Here(l, ")")
    PROVE  Finds(item(e), i, l + 1, Join(Join(<<Open>>, us), <<Close>>))
<1> DEFINE n == match_number   b == bool_literal_grammar   s == strict_member_accessor_grammar
           d == match_identifier   p == parenthesised(operand(e))
           v1 == level_1_grammar   v2 == level_2_grammar   r == n | b | s | d | p | v1
           o == match_string(<<"(">>)   c == match_string(<<")">>)   q == operand(e)
           open == <<Open>>   close == <<Close>>   x == Join(Join(open, us), close)
<1>1. item(e) = (r | v2)
  BY ItemIs
<1>2. i \in Positions /\ l \in Positions /\ i + 1 \in Positions
  BY HereNext DEF Here
<1>3. "(" \in Marks /\ "(" \notin Literals
  BY DEF Marks, Literals
<1>4. Fails(n, i) /\ Fails(b, i) /\ Fails(s, i) /\ Fails(d, i)
  BY <1>2, <1>3, Distinct, FindsName, FindsBool, NoAccessor
<1>5. Finds(q, i + 1, l, x)
  <2> DEFINE m == Match(l, us)
  <2>1. m.to = l /\ m.built = us /\ e[i + 1] = {m}
    BY DEF Match, Finds
  <2> HIDE DEF m
  <2>2. q[i + 1] = {Match(m.to, open \o m.built \o close)}
    BY <1>2, <2>1 DEF operand
  <2> QED
    BY <2>1, <2>2 DEF Finds, Join
<1>6. Finds(o, i, i + 1, << >>) /\ Finds(c, l, l + 1, << >>)
  BY <1>2, FindsString
<1>7. Join(<< >>, x) = x /\ Join(x, << >>) = x
  <2>1. open \in Seq(Items) /\ close \in Seq(Items)
    <3>1. Open \in Items /\ Close \in Items
      BY ItemTextIs
    <3> QED
      BY <3>1
  <2>2. x \in Seq(Items)
    <3> HIDE DEF open, close
    <3> QED
      BY <2>1, ConcatProperties DEF Join
  <2> HIDE DEF x
  <2> QED
    BY <2>2, ConcatEmptySeq DEF Join
<1>8. p = (o ++ q) ++ c
  BY DEF parenthesised
<1> HIDE DEF n, b, s, d, p, v1, v2, o, c, q, x, open, close
<1>9. Finds(o ++ q, i, l, x)
  BY <1>2, <1>5, <1>6, <1>7, FindsRow
<1> DEFINE oq == o ++ q
<1> HIDE DEF oq
<1>10. Finds(oq ++ c, i, l + 1, x)
  BY <1>2, <1>6, <1>7, <1>9, FindsRow DEF oq
<1>11. Finds(p, i, l + 1, x)
  BY <1>8, <1>10 DEF oq
<1>12. Finds(r, i, l + 1, x)
  BY <1>2, <1>4, <1>11, FirstOfSix
<1>13. Finds(item(e), i, l + 1, x)
  BY <1>1, <1>2, <1>12, FindsEither
<1> QED
  BY <1>13 DEF x, open, close

Ends(k) == Here(k, ";") \/ Here(k, ")")

\* The list of an expression ends at a semicolon or a parenthesis that closes.
LEMMA NoItem ==
    ASSUME text \in Seq(Lexicon), NEW k, Ends(k), NEW e
    PROVE  Fails(item(e), k)
<1> DEFINE n == match_number   b == bool_literal_grammar   s == strict_member_accessor_grammar
           d == match_identifier   p == parenthesised(operand(e))
           v1 == level_1_grammar   v2 == level_2_grammar   r == n | b | s | d | p | v1
<1>1. item(e) = (r | v2)
  BY ItemIs
<1>2. PICK w \in {";", ")"} : Here(k, w)
  BY DEF Ends
<1>3. k \in Positions /\ w \in Marks /\ w \notin {"(", "+", "-", "*", "/"}
  BY <1>2 DEF Here, Marks
<1>4. Fails(n, k) /\ Fails(b, k) /\ Fails(s, k) /\ Fails(d, k) /\ Fails(p, k)
  BY <1>2, <1>3, NoOperand
<1>5. Fails(v1, k) /\ Fails(v2, k)
  BY <1>2, <1>3, FindsLevel
<1> HIDE DEF n, b, s, d, p, v1, v2
<1>6. Fails(r, k)
  BY <1>3, <1>4, <1>5, NoneOfSix
<1> QED
  BY <1>1, <1>3, <1>5, <1>6, FailsEither

LEMMA JoinFour ==
    ASSUME NEW S, NEW a \in Seq(S), NEW b \in Seq(S), NEW c \in Seq(S), NEW d \in Seq(S)
    PROVE  Join(Join(Join(a, b), c), d) = Join(a, Join(b, Join(c, d)))
<1> DEFINE u == a \o b   v == c \o d
<1>1. u \in Seq(S) /\ v \in Seq(S)
  BY ConcatProperties
<1>2. u \o v = a \o (b \o v)
  BY <1>1, ConcatAssociative, SMTT(30)
<1> HIDE DEF u
<1>3. (u \o c) \o d = u \o v
  BY <1>1, ConcatAssociative, SMTT(30)
<1> QED
  BY <1>2, <1>3 DEF Join, u

\* A balanced sequence of items is found, by induction on its length: what follows it ends the list.
LEMMA FindsItems ==
    ASSUME text \in Seq(Lexicon), NEW xs \in Seq(Items), Balanced(xs), NEW i, NEW k,
           Spans(i, k, Written(xs, ItemTexts)), Ends(k)
    PROVE  Finds(expression_rules, i, k, xs)
<1> DEFINE e == expression_rules   W(ys) == Written(ys, ItemTexts)
           Found(ys) == \A j, l : Spans(j, l, W(ys)) /\ Ends(l) => Finds(e, j, l, ys)
           N == {n \in Nat : \A ys \in Seq(Items) : Len(ys) <= n /\ Balanced(ys) => Found(ys)}
<1>1. \A j \in Positions : e[j] = ((item(e) ++ e) | nothing)[j]
  BY ExpressionEquation
<1>2. \A j \in Positions : \A l, b : Finds((item(e) ++ e) | nothing, j, l, b) => Finds(e, j, l, b)
  BY <1>1 DEF Finds
<1>3. ItemTexts \in TextsOf(Items)
  BY ItemTextType
<1>4. W(<< >>) = << >>
  BY <1>3, WrittenOne
<1>5. \A x \in Items : \A ys \in Seq(Items) :
         /\ ItemTexts[x] \in Seq(Lexicon) /\ W(ys) \in Seq(Lexicon)
         /\ W(Join(<<x>>, ys)) = Join(ItemTexts[x], W(ys))
  BY <1>3, WrittenFacts, WrittenCons, ZenonT(30) DEF TextsOf, Join
<1>6. \A us, vs \in Seq(Items) : W(Join(us, vs)) = Join(W(us), W(vs)) /\ Join(us, vs) \in Seq(Items)
  BY <1>3, WrittenFacts, ConcatProperties DEF Join
<1> HIDE DEF e
<1>7. Found(<< >>)
  <2> SUFFICES ASSUME NEW j, NEW l, Spans(j, l, W(<< >>)), Ends(l) PROVE Finds(e, j, l, << >>)
    OBVIOUS
  <2>1. j = l /\ j \in Positions
    BY <1>4, SpansNone DEF Spans
  <2>2. Fails(item(e) ++ e, j) /\ Finds(nothing, j, l, << >>)
    BY <2>1, NoItem, FailsRow, FindsNothing
  <2> QED
    BY <1>2, <2>1, <2>2, FindsEither
<1>8. ASSUME NEW x \in Items, NEW ys \in Seq(Items), x # Open, x # Close, Found(ys)
      PROVE  Found(Join(<<x>>, ys))
  <2> SUFFICES ASSUME NEW j, NEW l, Spans(j, l, W(Join(<<x>>, ys))), Ends(l)
               PROVE  Finds(e, j, l, Join(<<x>>, ys))
    OBVIOUS
  <2>1. PICK h \in Positions : Spans(j, h, ItemTexts[x]) /\ Spans(h, l, W(ys))
    BY <1>5, SpansCut
  <2>2. ~Here(l, ".")
    BY HereOnce DEF Ends
  <2>3. ~Here(h, ".")
    BY <2>1, <2>2, ItemsHead
  <2>4. Finds(item(e), j, h, <<x>>)
    BY <1>8, <2>1, <2>3, FindsOneItem
  <2>5. Finds(e, h, l, ys) /\ j \in Positions
    BY <1>8, <2>1 DEF Spans
  <2>6. Finds(item(e) ++ e, j, l, Join(<<x>>, ys))
    BY <2>4, <2>5, FindsRow
  <2> QED
    BY <1>2, <2>5, <2>6, FindsEither
<1>9. ASSUME NEW us \in Seq(Items), NEW vs \in Seq(Items), Found(us), Found(vs)
      PROVE  Found(Join(<<Open>>, Join(us, Join(<<Close>>, vs))))
  <2> DEFINE rest == Join(<<Close>>, vs)   inner == Join(us, rest)   ys == Join(<<Open>>, inner)
  <2> SUFFICES ASSUME NEW j, NEW l, Spans(j, l, W(ys)), Ends(l) PROVE Finds(e, j, l, ys)
    OBVIOUS
  <2>1. Open \in Items /\ Close \in Items /\ ItemTexts[Open] = <<"(">> /\ ItemTexts[Close] = <<")">>
    BY ItemTextIs, ItemTextType
  <2>2. rest \in Seq(Items) /\ inner \in Seq(Items)
    <3>1. <<Close>> \in Seq(Items)
      BY <2>1
    <3> QED
      BY <1>6, <3>1
  <2> DEFINE o == ItemTexts[Open]   c == ItemTexts[Close]
  <2>3. /\ W(ys) = Join(o, Join(W(us), Join(c, W(vs))))
        /\ o \in Seq(Lexicon) /\ c \in Seq(Lexicon) /\ W(us) \in Seq(Lexicon) /\ W(vs) \in Seq(Lexicon)
    <3>1. W(rest) = Join(c, W(vs)) /\ c \in Seq(Lexicon) /\ W(vs) \in Seq(Lexicon)
      BY <1>5, <2>1
    <3>2. W(inner) = Join(W(us), W(rest)) /\ W(us) \in Seq(Lexicon)
      BY <1>5, <1>6, <2>1, <2>2
    <3>3. W(ys) = Join(o, W(inner)) /\ o \in Seq(Lexicon)
      BY <1>5, <2>1, <2>2
    <3> QED
      BY <3>1, <3>2, <3>3
  <2>4. o = <<"(">> /\ c = <<")">> /\ "(" \in Lexicon /\ ")" \in Lexicon
    BY <2>1, SymbolsInLexicon
  <2> DEFINE U == W(us)   V == W(vs)
  <2> HIDE DEF o, c, W, U, V
  <2>5. /\ Spans(j, l, Join(o, Join(U, Join(c, V))))
        /\ U \in Seq(Lexicon) /\ V \in Seq(Lexicon) /\ o \in Seq(Lexicon) /\ c \in Seq(Lexicon)
    BY <2>3 DEF U, V
  <2>6. Join(c, V) \in Seq(Lexicon) /\ Join(U, Join(c, V)) \in Seq(Lexicon)
    BY <2>5, JoinFacts
  <2>7. Here(j, "(") /\ Spans(j + 1, l, Join(U, Join(c, V)))
    BY <2>4, <2>5, <2>6, SpansMore
  <2>8. PICK h \in Positions : Spans(j + 1, h, U) /\ Spans(h, l, Join(c, V))
    BY <2>5, <2>6, <2>7, SpansCut
  <2>9. Here(h, ")") /\ Spans(h + 1, l, V)
    BY <2>4, <2>5, <2>8, SpansMore
  <2>10. Finds(e, j + 1, h, us) /\ Finds(e, h + 1, l, vs)
    BY <1>9, <2>8, <2>9 DEF Ends, U, V
  <2>11. Finds(item(e), j, h + 1, Join(Join(<<Open>>, us), <<Close>>)) /\ j \in Positions
    BY <2>7, <2>9, <2>10, FindsNested DEF Here
  <2>12. Finds(item(e) ++ e, j, l, Join(Join(Join(<<Open>>, us), <<Close>>), vs))
    BY <2>10, <2>11, FindsRow
  <2>13. Join(Join(Join(<<Open>>, us), <<Close>>), vs) = ys
    <3> DEFINE open == <<Open>>   close == <<Close>>
    <3>1. open \in Seq(Items) /\ close \in Seq(Items)
      BY <2>1
    <3> HIDE DEF open, close
    <3>2. Join(Join(Join(open, us), close), vs) = Join(open, Join(us, Join(close, vs)))
      BY <3>1, JoinFour
    <3> QED
      BY <3>2 DEF open, close
  <2> QED
    BY <1>2, <2>11, <2>12, <2>13, FindsEither
<1>10. 0 \in N
  <2> SUFFICES ASSUME NEW ys \in Seq(Items), Len(ys) <= 0 PROVE Found(ys)
    OBVIOUS
  <2>1. Len(ys) \in Nat
    BY LenProperties
  <2>2. ys = << >>
    BY <2>1, EmptySeq
  <2> QED
    BY <1>7, <2>2
<1>11. ASSUME NEW n \in Nat, n \in N PROVE n + 1 \in N
  <2> SUFFICES ASSUME NEW ys \in Seq(Items), Len(ys) <= n + 1, Balanced(ys) PROVE Found(ys)
    OBVIOUS
  <2>1. \A us \in Seq(Items) : Len(us) <= n /\ Balanced(us) => Found(us)
    BY <1>11
  <2>2. CASE ys = << >>
    BY <1>7, <2>2
  <2> HIDE DEF Found
  <2>3. ASSUME NEW x \in Items, NEW us \in Seq(Items),
               x # Open, x # Close, ys = Join(<<x>>, us), Balanced(us)
        PROVE  Found(ys)
    <3>1. Len(ys) = 1 + Len(us) /\ Len(us) \in Nat
      BY <2>3, JoinLength
    <3>2. Len(us) <= n
      BY <3>1
    <3> QED
      BY <1>8, <2>1, <2>3, <3>2
  <2>4. ASSUME NEW us \in Seq(Items), NEW vs \in Seq(Items),
               ys = Join(<<Open>>, Join(us, Join(<<Close>>, vs))), Balanced(us), Balanced(vs)
        PROVE  Found(ys)
    <3>1. Open \in Items /\ Close \in Items
      BY ItemTextIs
    <3>2. Len(ys) = 1 + (Len(us) + (1 + Len(vs))) /\ Len(us) \in Nat /\ Len(vs) \in Nat
      <4>1. Join(<<Close>>, vs) \in Seq(Items) /\ Len(Join(<<Close>>, vs)) = 1 + Len(vs)
        BY <3>1, JoinLength
      <4>2. /\ Join(us, Join(<<Close>>, vs)) \in Seq(Items)
            /\ Len(Join(us, Join(<<Close>>, vs))) = Len(us) + Len(Join(<<Close>>, vs))
        BY <1>6, <4>1, ConcatProperties DEF Join
      <4>3. Len(us) \in Nat /\ Len(vs) \in Nat
        BY LenProperties
      <4> QED
        BY <2>4, <3>1, <4>1, <4>2, <4>3, JoinLength, ZenonT(30)
    <3>3. Len(us) <= n /\ Len(vs) <= n
      BY <3>2
    <3> QED
      BY <1>9, <2>1, <2>4, <3>3
  <2>5. CASE ys # << >>
    <3>1. \/ \E x \in Items : \E us \in Seq(Items) :
                x # Open /\ x # Close /\ ys = Join(<<x>>, us) /\ Balanced(us)
          \/ \E us \in Seq(Items) : \E vs \in Seq(Items) :
                /\ ys = Join(<<Open>>, Join(us, Join(<<Close>>, vs)))
                /\ Balanced(us) /\ Balanced(vs)
      BY <2>5, BalancedSplit
    <3> QED
      BY <2>3, <2>4, <3>1
  <2> QED
    BY <2>2, <2>5
<1>12. Nat \subseteq N
  <2> HIDE DEF N
  <2> QED
    BY <1>10, <1>11, InductiveSet
<1>13. Len(xs) \in Nat /\ Len(xs) <= Len(xs)
  BY LenProperties
<1> QED
  BY <1>12, <1>13 DEF e

LEMMA FindsExpression ==
    ASSUME text \in Seq(Lexicon), NEW x \in Expressions, NEW i, NEW k,
           Spans(i, k, ExpressionTexts[x]), Ends(k)
    PROVE  Finds(expression_grammar, i, k, <<x>>)
<1>1. x.parts \in {items \in Seq(Items) : Balanced(items)} /\ x = Node("expression", x.parts)
  BY InNodes DEF Expressions
<1>2. ExpressionTexts[x] = Written(x.parts, ItemTexts)
  BY <1>1, ExpressionTextType, LexemesOfItems
<1>3. Finds(expression_rules, i, k, x.parts)
  BY <1>1, <1>2, FindsItems
<1>4. i \in Positions
  BY DEF Spans
<1> QED
  BY <1>1, <1>3, <1>4, FindsProduction DEF expression_grammar

LEMMA FindsAssignment ==
    ASSUME text \in Seq(Lexicon)
    PROVE  /\ FindsAll(assignment_statement, Assignments, AssignmentTexts)
           /\ \A j : Here(j, "}") => Fails(assignment_statement, j)
<1> DEFINE m == member_accessor_grammar   q == match_string(<<"=">>)   g == expression_grammar   s == semicol
           r == m ++ q   t == r ++ g
<1>1. assignment_statement = match_production("assignment", t ++ s)
  BY DEF assignment_statement
<1>2. ASSUME NEW p \in Assignments, NEW i, NEW k, Spans(i, k, AssignmentTexts[p])
      PROVE  Finds(assignment_statement, i, k, <<p>>)
  <2>1. PICK a \in Accessors, e \in Expressions : p = Node("assignment", <<a, e>>)
    BY AssignmentShape
  <2> DEFINE A == AccessorText(a)   E == ExpressionTexts[e]   equals == <<"=">>   end == <<";">>
             B == Join(A, equals)   C == Join(B, E)
  <2>2. AssignmentTexts[p] = Join(C, end)
    BY <2>1, AssignmentShape, AssignmentTextType
  <2>3. /\ A \in Seq(Lexicon) /\ E \in Seq(Lexicon) /\ equals \in Seq(Lexicon) /\ end \in Seq(Lexicon)
        /\ "=" \in Lexicon /\ ";" \in Lexicon
    BY AccessorTextType, ExpressionTextType, SymbolsInLexicon DEF TextsOf
  <2> HIDE DEF A, E, equals, end
  <2>4. B \in Seq(Lexicon)
    BY <2>3, JoinFacts
  <2> HIDE DEF B
  <2>5. C \in Seq(Lexicon)
    BY <2>3, <2>4, JoinFacts
  <2> HIDE DEF C
  <2>0. Spans(i, k, Join(C, end))
    BY <1>2, <2>2
  <2>6. PICK l \in Positions : Spans(i, l, C) /\ Spans(l, k, end)
    BY ONLY <2>0, <2>3, <2>5, SpansCut, text \in Seq(Lexicon)
  <2>7. PICK h \in Positions : Spans(i, h, B) /\ Spans(h, l, E)
    BY <2>3, <2>4, <2>6, SpansCut DEF C
  <2>8. PICK j \in Positions : Spans(i, j, A) /\ Spans(j, h, equals)
    BY <2>3, <2>7, SpansCut DEF B
  <2>9. Here(l, ";") /\ k = l + 1 /\ Here(j, "=") /\ h = j + 1 /\ i \in Positions
    BY <2>3, <2>6, <2>8, SpansOne DEF end, equals, Spans
  <2>10. ~Here(j, ".")
    BY <2>9, HereOnce
  <2>11. /\ Finds(m, i, j, <<a>>) /\ Finds(q, j, h, << >>) /\ Finds(g, h, l, <<e>>) /\ Finds(s, l, k, << >>)
    BY <2>7, <2>8, <2>9, <2>10, FindsAccessor, FindsString, FindsExpression, FindsEnd DEF A, E, Ends
  <2> HIDE DEF m, q, g, s
  <2>12. /\ Join(<<a>>, << >>) = <<a>> /\ Join(<<a>>, <<e>>) = <<a, e>> /\ Join(<<a, e>>, << >>) = <<a, e>>
    BY JoinTuples
  <2>13. Finds(r, i, h, <<a>>)
    BY <2>9, <2>11, <2>12, FindsRow
  <2> HIDE DEF r
  <2>14. Finds(t, i, l, <<a, e>>)
    BY <2>9, <2>11, <2>12, <2>13, FindsRow
  <2> HIDE DEF t
  <2>15. Finds(t ++ s, i, k, <<a, e>>)
    BY <2>9, <2>11, <2>12, <2>14, FindsRow
  <2> QED
    BY <1>1, <2>1, <2>9, <2>15, FindsProduction
<1>3. ASSUME NEW j, Here(j, "}") PROVE Fails(assignment_statement, j)
  <2>1. j \in Positions
    BY <1>3 DEF Here
  <2>2. Fails(m, j)
    BY <1>3, NoAccessor, Distinct DEF Marks
  <2> HIDE DEF m, q, g, s
  <2>3. Fails(r, j)
    BY <2>1, <2>2, FailsRow
  <2> HIDE DEF r
  <2>4. Fails(t, j)
    BY <2>1, <2>3, FailsRow
  <2> HIDE DEF t
  <2> QED
    BY <1>1, <2>1, <2>4, FailsRow, FailsProduction
<1> QED
  BY <1>2, <1>3 DEF FindsAll

LEMMA FindsPost ==
    ASSUME text \in Seq(Lexicon), NEW xs \in Seq(Assignments), NEW i, NEW k,
           Spans(i, k, Block("post", xs, AssignmentTexts))
    PROVE  Finds(capability_post_statement, i, k, <<Node("post", xs)>>)
<1>1. Ahead(assignment_statement) /\ AssignmentTexts \in TextsOf(Assignments)
  BY AssignmentReads, AssignmentTextType, ReadsAhead
<1> DEFINE keyword == "post"
<1>2. keyword \in Lexicon
  BY SymbolsInLexicon
<1>3. capability_post_statement =
         match_production("post", match_keyword(keyword) ++ bracketed(list(assignment_statement)))
  BY DEF capability_post_statement
<1> HIDE DEF keyword
<1> QED
  BY <1>1, <1>2, <1>3, FindsAssignment, FindsBlock DEF keyword

----------------------------------------------------------------------------
(***************************************************************************)
(* Capabilities, statements and actors.                                    *)
(***************************************************************************)
\* The text of a capability, with or without preconditions and assignments.
LEMMA FindsCapability ==
    ASSUME text \in Seq(Lexicon)
    PROVE  /\ FindsAll(capability_definition, Capabilities, CapabilityTexts)
           /\ \A x \in Capabilities : \A i, k : Spans(i, k, CapabilityTexts[x]) => Here(i, "capability")
<1> SUFFICES ASSUME NEW x \in Capabilities, NEW i, NEW k, Spans(i, k, CapabilityTexts[x])
             PROVE  Finds(capability_definition, i, k, <<x>>) /\ Here(i, "capability")
  BY DEF FindsAll
<1>1. PICK w \in Words, xs \in Seq(Preconditions), ys \in Seq(Assignments) :
         x = Node("capability", <<Leaf("identifier", w), Node("pre", xs), Node("post", ys)>>)
  BY CapabilityShape
<1> DEFINE X == Written(xs, PreconditionTexts)   Y == Written(ys, AssignmentTexts)
           key == <<"capability">>   name == <<w>>   o == <<"{">>   c == <<"}">>   end == <<";">>
           pre == Block("pre", xs, PreconditionTexts)   post == Block("post", ys, AssignmentTexts)
           both == Join(pre, post)   first == Join(key, name)   inner == Join(Join(o, both), c)
           most == Join(first, inner)
<1>2. X \in Seq(Lexicon) /\ Y \in Seq(Lexicon)
  BY PreconditionTextType, AssignmentTextType, WrittenFacts
<1>3. CapabilityTexts[x] = Join(most, end)
  <2>1. CapabilityTexts[x] = Join(Join(Join(Join(<<"capability", w, "{", "pre", "{">>, X), <<"}", "post", "{">>), Y),
                                  <<"}", "}", ";">>)
    BY <1>1, CapabilityShape, CapabilityTextType
  <2> HIDE DEF X, Y
  <2>2. /\ Join(Join(Join(Join(<<"capability">>, <<w>>), <<"{">>), <<"pre">>), <<"{">>)
             = <<"capability", w, "{", "pre", "{">>
        /\ Join(Join(<<"}">>, <<"post">>), <<"{">>) = <<"}", "post", "{">>
        /\ Join(Join(<<"}">>, <<"}">>), <<";">>) = <<"}", "}", ";">>
    BY CapabilityFrame
  <2>3. Join(Join(Join(<<"capability">>, <<w>>),
                  Join(Join(<<"{">>, Join(Join(<<"pre">>, Join(Join(<<"{">>, X), <<"}">>)),
                                          Join(<<"post">>, Join(Join(<<"{">>, Y), <<"}">>)))), <<"}">>)), <<";">>)
          = Join(Join(Join(Join(Join(Join(Join(Join(<<"capability">>, <<w>>), <<"{">>), <<"pre">>), <<"{">>), X),
                           Join(Join(<<"}">>, <<"post">>), <<"{">>)), Y),
                 Join(Join(<<"}">>, <<"}">>), <<";">>))
    BY <1>2, CapabilityGlue
  <2>4. Join(most, end)
          = Join(Join(Join(<<"capability">>, <<w>>),
                      Join(Join(<<"{">>, Join(Join(<<"pre">>, Join(Join(<<"{">>, X), <<"}">>)),
                                              Join(<<"post">>, Join(Join(<<"{">>, Y), <<"}">>)))), <<"}">>)), <<";">>)
    BY DEF Block, X, Y
  <2> QED
    BY <2>1, <2>2, <2>3, <2>4
<1>4. /\ "capability" \in Lexicon /\ w \in Lexicon /\ "{" \in Lexicon /\ "}" \in Lexicon /\ ";" \in Lexicon
      /\ key \in Seq(Lexicon) /\ name \in Seq(Lexicon) /\ o \in Seq(Lexicon) /\ c \in Seq(Lexicon)
      /\ end \in Seq(Lexicon)
  BY SymbolsInLexicon
<1>5. pre \in Seq(Lexicon) /\ post \in Seq(Lexicon)
  <2>1. <<"pre">> \in Seq(Lexicon) /\ <<"post">> \in Seq(Lexicon)
    BY SymbolsInLexicon
  <2> HIDE DEF X, Y, o, c
  <2>2. pre = Join(<<"pre">>, Join(Join(o, X), c)) /\ post = Join(<<"post">>, Join(Join(o, Y), c))
    BY DEF Block, X, Y, o, c
  <2> DEFINE oX == Join(o, X)   oY == Join(o, Y)   oXc == Join(oX, c)   oYc == Join(oY, c)
  <2>3. oX \in Seq(Lexicon) /\ oY \in Seq(Lexicon)
    BY ONLY <1>2, <1>4, JoinFacts
  <2> HIDE DEF oX, oY
  <2>4. oXc \in Seq(Lexicon) /\ oYc \in Seq(Lexicon)
    BY ONLY <2>3, <1>4, JoinFacts
  <2>5. pre = Join(<<"pre">>, oXc) /\ post = Join(<<"post">>, oYc)
    BY <2>2 DEF oX, oY
  <2> DEFINE left == <<"pre">>   right == <<"post">>
  <2> HIDE DEF oXc, oYc, left, right
  <2>6. Join(left, oXc) \in Seq(Lexicon) /\ Join(right, oYc) \in Seq(Lexicon)
    BY <2>1, <2>4, JoinFacts DEF left, right
  <2> QED
    BY <2>5, <2>6 DEF left, right
<1> HIDE DEF X, Y, key, name, o, c, end, pre, post
<1>6. both \in Seq(Lexicon) /\ first \in Seq(Lexicon)
  BY <1>4, <1>5, JoinFacts
<1>7. Join(o, both) \in Seq(Lexicon)
  BY <1>4, <1>6, JoinFacts
<1>8. inner \in Seq(Lexicon)
  BY <1>4, <1>7, JoinFacts
<1> HIDE DEF both, first, inner
<1>9. most \in Seq(Lexicon)
  BY <1>6, <1>8, JoinFacts
<1> HIDE DEF most
<1>23. Spans(i, k, Join(most, end))
  BY <1>3
<1>10. PICK l \in Positions : Spans(i, l, most) /\ Spans(l, k, end)
  BY ONLY <1>23, <1>4, <1>9, SpansCut, text \in Seq(Lexicon)
<1>11. PICK j \in Positions : Spans(i, j, first) /\ Spans(j, l, inner)
  BY <1>6, <1>8, <1>10, SpansCut DEF most
<1>12. Here(i, "capability") /\ i + 1 \in Positions /\ Here(i + 1, w) /\ j = i + 1 + 1
  <2>1. Here(i, "capability") /\ i + 1 \in Positions /\ Spans(i + 1, j, name)
    BY <1>4, <1>11, SpansMore DEF first, key
  <2> QED
    BY <1>4, <2>1, SpansOne DEF name
<1>13. Here(l, ";") /\ k = l + 1 /\ i \in Positions
  BY <1>4, <1>10, SpansOne DEF end, Spans
<1> DEFINE p == capability_pre_statement   q == capability_post_statement   r == p ++ q
           kw == match_keyword("capability")   id == match_identifier   s == semicol
           b == bracketed(r)   t == kw ++ id   u == t ++ b
           P == Node("pre", xs)   Q == Node("post", ys)   W == Leaf("identifier", w)
<1>14. capability_definition = match_production("capability", u ++ s)
  BY DEF capability_definition
<1>15. Join(<<P>>, <<Q>>) = <<P, Q>> /\ Join(<< >>, <<W>>) = <<W>> /\ Join(<<W>>, <<P, Q>>) = <<W, P, Q>>
       /\ Join(<<W, P, Q>>, << >>) = <<W, P, Q>>
  BY JoinTuples, OneThenTwo
<1>16. x = Node("capability", <<W, P, Q>>)
  BY <1>1
<1>17. Finds(b, j, l, <<P, Q>>)
  <2>1. b = (match_string(<<"{">>) ++ r) ++ match_string(<<"}">>)
    BY DEF bracketed
  <2>2. ASSUME NEW g, NEW h, Spans(g, h, both) PROVE Finds(r, g, h, <<P, Q>>)
    <3>1. PICK f \in Positions : Spans(g, f, pre) /\ Spans(f, h, post)
      BY <1>5, <2>2, SpansCut DEF both
    <3>2. Finds(p, g, f, <<P>>) /\ Finds(q, f, h, <<Q>>) /\ g \in Positions
      BY <3>1, FindsPre, FindsPost DEF pre, post, Spans
    <3> HIDE DEF p, q, P, Q
    <3> QED
      BY <1>15, <3>2, FindsRow
  <2>3. <<P, Q>> \in Seq({P, Q})
    OBVIOUS
  <2> DEFINE B == {P, Q}   pq == <<P, Q>>
  <2>4. pq \in Seq(B) /\ \A g, h : Spans(g, h, both) => Finds(r, g, h, pq)
    BY <2>2, <2>3
  <2>5. Spans(j, l, Join(Join(<<"{">>, both), <<"}">>))
    BY <1>11 DEF inner, o, c
  <2> HIDE DEF r, B, pq
  <2>6. Finds((match_string(<<"{">>) ++ r) ++ match_string(<<"}">>), j, l, pq)
    BY <1>4, <1>6, <2>4, <2>5, FindsWithin
  <2> QED
    BY <2>1, <2>6 DEF pq, r
<1>18. Finds(kw, i, i + 1, << >>) /\ Finds(id, i + 1, j, <<W>>) /\ Finds(s, l, k, << >>)
  BY <1>12, <1>13, FindsString, FindsName, FindsEnd DEF match_keyword
<1> HIDE DEF kw, id, s, b, P, Q, W
<1>19. Finds(t, i, j, <<W>>)
  BY <1>12, <1>13, <1>15, <1>18, FindsRow
<1> HIDE DEF t
<1>20. Finds(u, i, l, <<W, P, Q>>)
  BY <1>13, <1>15, <1>17, <1>19, FindsRow
<1> HIDE DEF u
<1>21. Finds(u ++ s, i, k, <<W, P, Q>>)
  BY <1>13, <1>15, <1>18, <1>20, FindsRow
<1> QED
  BY <1>12, <1>13, <1>14, <1>16, <1>21, FindsProduction

LEMMA SpansFour ==
    ASSUME text \in Seq(Lexicon), NEW a \in Lexicon, NEW b \in Lexicon, NEW c \in Lexicon, NEW d \in Lexicon,
           NEW i, NEW k, Spans(i, k, <<a, b, c, d>>)
    PROVE  Here(i, a) /\ Here(i + 1, b) /\ Here(i + 1 + 1, c) /\ Here(i + 1 + 1 + 1, d)
           /\ k = i + 1 + 1 + 1 + 1
<1> DEFINE s == <<a, b, c>>   t == <<d>>
<1>1. s \in Seq(Lexicon) /\ t \in Seq(Lexicon)
  OBVIOUS
<1>2. Spans(i, k, Join(s, t))
  BY LongTuples
<1> HIDE DEF s, t
<1>3. PICK j \in Positions : Spans(i, j, s) /\ Spans(j, k, t)
  BY <1>1, <1>2, SpansCut
<1>4. Here(i, a) /\ Here(i + 1, b) /\ Here(i + 1 + 1, c) /\ j = i + 1 + 1 + 1
  BY <1>3, SpansThree DEF s
<1>5. Here(j, d) /\ k = j + 1
  BY <1>3, SpansOne DEF t
<1> QED
  BY <1>4, <1>5

LEMMA FindsHas ==
    ASSUME text \in Seq(Lexicon), NEW n \in Numerals, NEW w \in Words, NEW i, NEW k,
           Spans(i, k, <<"has", n, w, ";">>)
    PROVE  Finds(actor_has_statement, i, k, <<Has(n, w)>>)
<1> DEFINE h == match_keyword("has")   q == match_number   id == match_identifier   e == semicol
           r == h ++ q   s == r ++ id   x == Leaf("number", n)   y == Leaf("identifier", w)
           j == i + 1   l == i + 1 + 1   m == i + 1 + 1 + 1
<1>1. actor_has_statement = match_production("has", s ++ e)
  BY DEF actor_has_statement
<1>2. Here(i, "has") /\ Here(j, n) /\ Here(l, w) /\ Here(m, ";") /\ k = m + 1
  <2> DEFINE f == "has"   g == ";"
  <2>1. f \in Lexicon /\ n \in Lexicon /\ w \in Lexicon /\ g \in Lexicon /\ Spans(i, k, <<f, n, w, g>>)
    BY SymbolsInLexicon
  <2> HIDE DEF f, g
  <2>2. Here(i, f) /\ Here(j, n) /\ Here(l, w) /\ Here(m, g) /\ k = m + 1
    BY ONLY <2>1, SpansFour, text \in Seq(Lexicon)
  <2> QED
    BY <2>2 DEF f, g
<1>3. i \in Positions /\ j \in Positions /\ l \in Positions /\ m \in Positions
  BY <1>2 DEF Here
<1>4. /\ Finds(h, i, j, << >>) /\ Finds(q, j, l, <<x>>) /\ Finds(id, l, m, <<y>>) /\ Finds(e, m, k, << >>)
  BY <1>2, <1>3, FindsString, FindsName, FindsEnd DEF match_keyword
<1>5. /\ Join(<< >>, <<x>>) = <<x>> /\ Join(<<x>>, <<y>>) = <<x, y>> /\ Join(<<x, y>>, << >>) = <<x, y>>
  BY JoinTuples
<1> HIDE DEF h, q, id, e, j, l, m
<1>6. Finds(r, i, l, <<x>>)
  BY <1>3, <1>4, <1>5, FindsRow
<1> HIDE DEF r
<1>7. Finds(s, i, m, <<x, y>>)
  BY <1>3, <1>4, <1>5, <1>6, FindsRow
<1> HIDE DEF s
<1>8. Finds(s ++ e, i, k, <<x, y>>)
  BY <1>3, <1>4, <1>5, <1>7, FindsRow
<1> QED
  BY <1>1, <1>3, <1>8, FindsProduction DEF Has

\* No capability begins here.
LEMMA NoCapability ==
    ASSUME text \in Seq(Lexicon), NEW i, NEW w, Here(i, w),
           w # "capability" \/ \E v : Here(i + 1, v) /\ v \notin Words
    PROVE  Fails(capability_definition, i)
<1> DEFINE kw == match_keyword("capability")   id == match_identifier   t == kw ++ id
           b == bracketed(capability_pre_statement ++ capability_post_statement)
           u == t ++ b   s == semicol
<1>1. i \in Positions
  BY DEF Here
<1>2. capability_definition = match_production("capability", u ++ s)
  BY DEF capability_definition
<1>3. w # "capability" => Fails(kw, i)
  BY <1>1, FindsString, HereOnce DEF match_keyword
<1>4. w = "capability" => Finds(kw, i, i + 1, << >>) /\ Fails(id, i + 1)
  <2> SUFFICES ASSUME w = "capability" PROVE Finds(kw, i, i + 1, << >>) /\ Fails(id, i + 1)
    OBVIOUS
  <2>1. PICK v : Here(i + 1, v) /\ v \notin Words
    OBVIOUS
  <2>2. i + 1 \in Positions
    BY <2>1 DEF Here
  <2> QED
    BY <1>1, <2>1, <2>2, FindsString, FindsName DEF match_keyword
<1> HIDE DEF kw, id, b, s
<1>5. Fails(t, i)
  BY <1>1, <1>3, <1>4, FailsRow
<1> HIDE DEF t
<1>6. Fails(u, i)
  BY <1>1, <1>5, FailsRow
<1> HIDE DEF u
<1>7. Fails(u ++ s, i)
  BY <1>1, <1>6, FailsRow
<1> QED
  BY <1>1, <1>2, <1>7, FailsProduction

LEMMA FindsCan ==
    ASSUME text \in Seq(Lexicon), NEW w \in Words, NEW i, NEW k, Spans(i, k, <<"can", w, ";">>)
    PROVE  Finds(actor_can_statement, i, k, <<Can(w)>>)
<1> DEFINE kw == match_keyword("can")   id == match_identifier   e == semicol
           x == Leaf("identifier", w)   y == Can(w)   j == i + 1   l == i + 1 + 1
           c == match_capability_identifier
<1>1. actor_can_statement = kw ++ (capability_definition | c) /\ c = match_production("capability_identifier", id ++ e)
  BY DEF actor_can_statement, match_capability_identifier
<1>2. Here(i, "can") /\ Here(j, w) /\ Here(l, ";") /\ k = l + 1
  <2> DEFINE f == "can"   g == ";"
  <2>1. f \in Lexicon /\ w \in Lexicon /\ g \in Lexicon /\ Spans(i, k, <<f, w, g>>)
    BY SymbolsInLexicon
  <2> HIDE DEF f, g
  <2>2. Here(i, f) /\ Here(j, w) /\ Here(l, g) /\ k = l + 1
    BY ONLY <2>1, SpansThree, text \in Seq(Lexicon)
  <2> QED
    BY <2>2 DEF f, g
<1>3. i \in Positions /\ j \in Positions /\ l \in Positions /\ l = j + 1
  BY <1>2 DEF Here
<1>4. Fails(capability_definition, j)
  <2>1. ";" \notin Words
    BY Distinct DEF Marks
  <2> QED
    BY <1>2, <1>3, <2>1, NoCapability
<1>5. Finds(kw, i, j, << >>) /\ Finds(id, j, l, <<x>>) /\ Finds(e, l, k, << >>)
  BY <1>2, <1>3, FindsString, FindsName, FindsEnd DEF match_keyword
<1>6. Join(<<x>>, << >>) = <<x>> /\ Join(<< >>, <<y>>) = <<y>> /\ y = Node("capability_identifier", <<x>>)
  BY JoinTuples DEF Can
<1> HIDE DEF kw, id, e, x, y, c, j, l
<1>7. Finds(id ++ e, j, k, <<x>>)
  BY <1>3, <1>5, <1>6, FindsRow
<1>8. Finds(c, j, k, <<y>>)
  BY <1>1, <1>3, <1>6, <1>7, FindsProduction
<1> DEFINE r == capability_definition | c
<1>9. Finds(r, j, k, <<y>>)
  BY <1>3, <1>4, <1>8, FindsEither
<1> HIDE DEF r
<1>10. Finds(kw ++ r, i, k, <<y>>)
  BY <1>3, <1>5, <1>6, <1>9, FindsRow
<1> QED
  BY <1>1, <1>10 DEF r, y

LEMMA FindsOwnCapability ==
    ASSUME text \in Seq(Lexicon), NEW x \in Capabilities, NEW i, NEW k,
           Spans(i, k, Join(<<"can">>, CapabilityTexts[x]))
    PROVE  Here(i, "can") /\ Finds(actor_can_statement, i, k, <<x>>)
<1> DEFINE can == "can"   kw == match_keyword(can)   r == capability_definition | match_capability_identifier
           T == CapabilityTexts[x]
<1>1. actor_can_statement = kw ++ r
  BY DEF actor_can_statement
<1>2. can \in Lexicon /\ T \in Seq(Lexicon)
  BY SymbolsInLexicon, CapabilityTextType DEF TextsOf
<1> HIDE DEF can, T
<1>3. Here(i, can) /\ i + 1 \in Positions /\ Spans(i + 1, k, T)
  BY <1>2, SpansMore DEF can, T
<1>4. i \in Positions
  BY <1>3 DEF Here
<1>5. Finds(capability_definition, i + 1, k, <<x>>)
  BY <1>3, FindsCapability DEF FindsAll, T
<1>6. Finds(r, i + 1, k, <<x>>)
  BY <1>3, <1>5, FindsEither
<1>7. Finds(kw, i, i + 1, << >>)
  BY <1>3, <1>4, FindsString DEF match_keyword
<1>8. Join(<< >>, <<x>>) = <<x>>
  BY JoinTuples
<1> HIDE DEF kw, r
<1>9. Finds(kw ++ r, i, k, <<x>>)
  BY <1>4, <1>6, <1>7, <1>8, FindsRow
<1> QED
  BY <1>1, <1>3, <1>9 DEF can

LEMMA NoHas ==
    ASSUME text \in Seq(Lexicon), NEW i, NEW w, Here(i, w)
    PROVE  /\ w # "has" => Fails(actor_has_statement, i)
           /\ w # "can" => Fails(actor_can_statement, i)
<1> DEFINE h == match_keyword("has")   q == match_number   id == match_identifier   e == semicol
           r == h ++ q   s == r ++ id
           kw == match_keyword("can")   o == capability_definition | match_capability_identifier
<1>1. i \in Positions
  BY DEF Here
<1>2. actor_has_statement = match_production("has", s ++ e) /\ actor_can_statement = kw ++ o
  BY DEF actor_has_statement, actor_can_statement
<1>3. (w # "has" => Fails(h, i)) /\ (w # "can" => Fails(kw, i))
  BY <1>1, FindsString, HereOnce DEF match_keyword
<1> HIDE DEF h, q, id, e, kw, o
<1>4. w # "can" => Fails(kw ++ o, i)
  BY <1>1, <1>3, FailsRow
<1>5. w # "has" => Fails(r, i)
  BY <1>1, <1>3, FailsRow
<1> HIDE DEF r
<1>6. w # "has" => Fails(s, i)
  BY <1>1, <1>5, FailsRow
<1> HIDE DEF s
<1>7. w # "has" => Fails(s ++ e, i)
  BY <1>1, <1>6, FailsRow
<1> QED
  BY <1>1, <1>2, <1>4, <1>7, FailsProduction

LEMMA FindsStatement ==
    ASSUME text \in Seq(Lexicon)
    PROVE  /\ FindsAll(actor_has_statement | actor_can_statement, Statements, StatementTexts)
           /\ \A j : Here(j, "}") => Fails(actor_has_statement | actor_can_statement, j)
<1>1. ASSUME NEW x \in Statements, NEW i, NEW k, Spans(i, k, StatementTexts[x])
      PROVE  Finds(actor_has_statement | actor_can_statement, i, k, <<x>>)
  <2>0. i \in Positions /\ StatementTexts[x] = StatementText(x)
    BY <1>1, StatementTextType DEF Spans
  <2>1. CASE \E n \in Numerals, w \in Words : x = Has(n, w)
    <3>1. PICK n \in Numerals, w \in Words : x = Has(n, w)
      BY <2>1
    <3>2. Spans(i, k, <<"has", n, w, ";">>)
      BY <1>1, <2>0, <3>1, StatementShape
    <3>3. Finds(actor_has_statement, i, k, <<x>>)
      BY <3>1, <3>2, FindsHas
    <3> QED
      BY <2>0, <3>3, FindsEither
  <2>2. CASE \E w \in Words : x = Can(w)
    <3>1. PICK w \in Words : x = Can(w)
      BY <2>2
    <3>2. Spans(i, k, <<"can", w, ";">>)
      BY <1>1, <2>0, <3>1, StatementShape
    <3>3. Finds(actor_can_statement, i, k, <<x>>)
      BY <3>1, <3>2, FindsCan
    <3>4. Here(i, "can")
      <4>1. "can" \in Lexicon /\ w \in Lexicon /\ ";" \in Lexicon
        BY SymbolsInLexicon
      <4> QED
        BY <3>2, <4>1, SpansThree
    <3>5. Fails(actor_has_statement, i)
      BY <3>4, NoHas
    <3> QED
      BY <2>0, <3>3, <3>5, FindsEither
  <2>3. CASE x \in Capabilities
    <3>1. Spans(i, k, Join(<<"can">>, CapabilityTexts[x]))
      BY <1>1, <2>0, <2>3, StatementShape, CapabilityTextType
    <3>2. Here(i, "can") /\ Finds(actor_can_statement, i, k, <<x>>)
      BY <2>3, <3>1, FindsOwnCapability
    <3>3. Fails(actor_has_statement, i)
      BY <3>2, NoHas
    <3> QED
      BY <2>0, <3>2, <3>3, FindsEither
  <2> QED
    BY <2>1, <2>2, <2>3, StatementShape
<1>2. ASSUME NEW j, Here(j, "}") PROVE Fails(actor_has_statement | actor_can_statement, j)
  <2>1. j \in Positions /\ Fails(actor_has_statement, j) /\ Fails(actor_can_statement, j)
    BY <1>2, NoHas DEF Here
  <2> QED
    BY <2>1, FailsEither
<1> QED
  BY <1>1, <1>2 DEF FindsAll

LEMMA OneInSeq == \A x : <<x>> \in Seq({x})
<1> TAKE x
<1> DEFINE S == {x}
<1>1. << >> \in Seq(S) /\ x \in S
  OBVIOUS
<1> HIDE DEF S
<1>2. Join(<<x>>, << >>) \in Seq(S)
  BY <1>1, JoinLength
<1> QED
  BY <1>2, JoinTuples DEF S

LEMMA FindsContent ==
    ASSUME text \in Seq(Lexicon), NEW xs \in Seq(Statements), NEW i, NEW k,
           Spans(i, k, Join(Join(<<"{">>, Written(xs, StatementTexts)), <<"}">>))
    PROVE  Finds(bracketed(match_production("content", list(actor_has_statement | actor_can_statement))),
                 i, k, <<Node("content", xs)>>)
<1> DEFINE one == actor_has_statement | actor_can_statement   c == match_production("content", list(one))
           V == Statements   T == StatementTexts   X == Written(xs, T)   b == <<Node("content", xs)>>
           B == {Node("content", xs)}   first == "{"   last == "}"
<1>1. Ahead(one) /\ T \in TextsOf(V) /\ FindsAll(one, V, T) /\ (\A j : Here(j, "}") => Fails(one, j)) /\ xs \in Seq(V)
  <2>1. Reads(one, OneOf(V, T)) /\ (\A x \in V : T[x] # << >>) /\ T \in TextsOf(V)
    BY StatementReads, StatementTextType
  <2>2. FindsAll(one, V, T) /\ \A j : Here(j, "}") => Fails(one, j)
    BY FindsStatement
  <2> HIDE DEF one, V, T
  <2>3. Ahead(one)
    BY <2>1, ReadsAhead
  <2> QED
    BY <2>1, <2>2, <2>3 DEF V
<1>2. bracketed(c) = (match_string(<<first>>) ++ c) ++ match_string(<<last>>)
  BY DEF bracketed
<1>3. Spans(i, k, Join(Join(<<first>>, X), <<last>>)) /\ first \in Lexicon /\ last \in Lexicon /\ b \in Seq(B)
  <2>1. first \in Lexicon /\ last \in Lexicon
    BY SymbolsInLexicon
  <2>2. b \in Seq(B)
    BY OneInSeq
  <2> HIDE DEF b, B
  <2> QED
    BY <2>1, <2>2
<1>4. X \in Seq(Lexicon)
  <2> HIDE DEF V, T
  <2> QED
    BY <1>1, WrittenFacts
<1>5. ASSUME NEW j, NEW l, Spans(j, l, X), Here(l, last) PROVE Finds(c, j, l, b)
  <2>1. j \in Positions /\ Fails(one, l)
    BY <1>1, <1>5 DEF Spans
  <2>2. Spans(j, l, Written(xs, T))
    BY <1>5
  <2> HIDE DEF one, V, T
  <2>3. Finds(list(one), j, l, xs)
    BY ONLY <1>1, <2>1, <2>2, FindsList, text \in Seq(Lexicon)
  <2> DEFINE r == list(one)
  <2> HIDE DEF r
  <2> QED
    BY <2>1, <2>3, FindsProduction DEF r
<1> HIDE DEF c, X, b, B, first, last
<1>6. Finds((match_string(<<first>>) ++ c) ++ match_string(<<last>>), i, k, b)
  BY ONLY <1>3, <1>4, <1>5, FindsWithin, text \in Seq(Lexicon)
<1> QED
  BY <1>2, <1>6 DEF c, b

\* The text of an actor, whatever its statements.
LEMMA FindsActor ==
    ASSUME text \in Seq(Lexicon)
    PROVE  FindsAll(actor_definition, Actors, ActorTexts)
<1> SUFFICES ASSUME NEW x \in Actors, NEW i, NEW k, Spans(i, k, ActorTexts[x])
             PROVE  Finds(actor_definition, i, k, <<x>>)
  BY DEF FindsAll
<1>1. PICK w \in Words, xs \in Seq(Statements) : x = Node("actor", <<Leaf("identifier", w), Node("content", xs)>>)
  BY ActorShape
<1> DEFINE X == Written(xs, StatementTexts)
           key == <<"actor">>   name == <<w>>   o == <<"{">>   c == <<"}">>   end == <<";">>
           first == Join(key, name)   inner == Join(Join(o, X), c)   most == Join(first, inner)
<1>2. X \in Seq(Lexicon)
  BY StatementTextType, WrittenFacts
<1>3. Spans(i, k, Join(most, end))
  <2>1. ActorTexts[x] = Join(Join(<<"actor", w, "{">>, X), <<"}", ";">>)
    BY <1>1, ActorShape, ActorTextType
  <2> HIDE DEF X
  <2>2. Join(most, end) = Join(Join(<<"actor", w, "{">>, X), <<"}", ";">>)
    BY <1>2, ActorGlue
  <2> QED
    BY <2>1, <2>2
<1>4. /\ "actor" \in Lexicon /\ w \in Lexicon /\ ";" \in Lexicon
      /\ key \in Seq(Lexicon) /\ name \in Seq(Lexicon) /\ o \in Seq(Lexicon) /\ c \in Seq(Lexicon)
      /\ end \in Seq(Lexicon)
  BY SymbolsInLexicon
<1>5. \A j, l : Spans(j, l, inner) => Finds(bracketed(match_production("content",
                     list(actor_has_statement | actor_can_statement))), j, l, <<Node("content", xs)>>)
  BY FindsContent
<1> HIDE DEF X, key, name, o, c, end
<1>6. first \in Seq(Lexicon) /\ Join(o, X) \in Seq(Lexicon)
  BY <1>2, <1>4, JoinFacts
<1>7. inner \in Seq(Lexicon)
  BY <1>4, <1>6, JoinFacts
<1> HIDE DEF first, inner
<1>8. most \in Seq(Lexicon)
  BY <1>6, <1>7, JoinFacts
<1> HIDE DEF most
<1>9. PICK l \in Positions : Spans(i, l, most) /\ Spans(l, k, end)
  BY ONLY <1>3, <1>4, <1>8, SpansCut, text \in Seq(Lexicon)
<1>10. PICK j \in Positions : Spans(i, j, first) /\ Spans(j, l, inner)
  BY <1>6, <1>7, <1>9, SpansCut DEF most
<1>11. Here(i, "actor") /\ i + 1 \in Positions /\ Here(i + 1, w) /\ j = i + 1 + 1
  <2>1. Here(i, "actor") /\ i + 1 \in Positions /\ Spans(i + 1, j, name)
    BY <1>4, <1>10, SpansMore DEF first, key
  <2> QED
    BY <1>4, <2>1, SpansOne DEF name
<1>12. Here(l, ";") /\ k = l + 1 /\ i \in Positions
  BY <1>4, <1>9, SpansOne DEF end, Spans
<1> DEFINE kw == match_keyword("actor")   id == match_identifier   s == semicol
           b == bracketed(match_production("content", list(actor_has_statement | actor_can_statement)))
           t == kw ++ id   u == t ++ b   W == Leaf("identifier", w)   C == Node("content", xs)
<1>13. actor_definition = match_production("actor", u ++ s)
  BY DEF actor_definition
<1>14. Join(<< >>, <<W>>) = <<W>> /\ Join(<<W>>, <<C>>) = <<W, C>> /\ Join(<<W, C>>, << >>) = <<W, C>>
  BY JoinTuples
<1>15. x = Node("actor", <<W, C>>)
  BY <1>1
<1>16. Finds(b, j, l, <<C>>)
  BY <1>5, <1>10
<1>17. Finds(kw, i, i + 1, << >>) /\ Finds(id, i + 1, j, <<W>>) /\ Finds(s, l, k, << >>)
  BY <1>11, <1>12, FindsString, FindsName, FindsEnd DEF match_keyword
<1> HIDE DEF kw, id, s, b, W, C
<1>18. Finds(t, i, j, <<W>>)
  BY <1>11, <1>12, <1>14, <1>17, FindsRow
<1> HIDE DEF t
<1>19. Finds(u, i, l, <<W, C>>)
  BY <1>12, <1>14, <1>16, <1>18, FindsRow
<1> HIDE DEF u
<1>20. Finds(u ++ s, i, k, <<W, C>>)
  BY <1>12, <1>14, <1>17, <1>19, FindsRow
<1> QED
  BY <1>12, <1>13, <1>15, <1>20, FindsProduction

LEMMA NoActor ==
    ASSUME text \in Seq(Lexicon), NEW i, Here(i, "capability")
    PROVE  Fails(actor_definition, i)
<1> DEFINE kw == match_keyword("actor")   id == match_identifier   s == semicol
           b == bracketed(match_production("content", list(actor_has_statement | actor_can_statement)))
           t == kw ++ id   u == t ++ b
<1>1. i \in Positions /\ ~Here(i, "actor")
  BY HereOnce DEF Here
<1>2. actor_definition = match_production("actor", u ++ s)
  BY DEF actor_definition
<1>3. Fails(kw, i)
  BY <1>1, FindsString DEF match_keyword
<1> HIDE DEF kw, id, b, s
<1>4. Fails(t, i)
  BY <1>1, <1>3, FailsRow
<1> HIDE DEF t
<1>5. Fails(u, i)
  BY <1>1, <1>4, FailsRow
<1> HIDE DEF u
<1>6. Fails(u ++ s, i)
  BY <1>1, <1>5, FailsRow
<1> QED
  BY <1>1, <1>2, <1>6, FailsProduction

\* A turn of the list adds the declaration whose text is next.
LEMMA TurnFinds ==
    ASSUME text \in Seq(Lexicon), NEW d \in Actors \cup Capabilities, NEW i, NEW k,
           Spans(i, k, DeclarationText(d))
    PROVE  /\ d \in Actors => Finds(actor_definition, i, k, <<d>>)
           /\ d \in Capabilities => Fails(actor_definition, i) /\ Finds(capability_definition, i, k, <<d>>)
<1>1. CASE d \in Actors
  <2>1. Spans(i, k, ActorTexts[d]) /\ d \notin Capabilities
    BY <1>1, DeclarationTextType, ActorTextType
  <2> QED
    BY <1>1, <2>1, FindsActor DEF FindsAll
<1>2. CASE d \in Capabilities
  <2>1. Spans(i, k, CapabilityTexts[d]) /\ d \notin Actors
    BY <1>2, DeclarationTextType, CapabilityTextType
  <2>2. Here(i, "capability") /\ Finds(capability_definition, i, k, <<d>>)
    BY <1>2, <2>1, FindsCapability DEF FindsAll
  <2> QED
    BY <2>1, <2>2, NoActor
<1> QED
  BY <1>1, <1>2

----------------------------------------------------------------------------
(***************************************************************************)
(* The first declarations of a text: their lexemes, and the actors or the  *)
(* capabilities among them.                                                *)
(***************************************************************************)
Declarable == Actors \cup Capabilities
DeclarationTexts == [d \in Declarable |-> DeclarationText(d)]
Selected(S) == [d \in Declarable |-> IF d \in S THEN <<d>> ELSE << >>]

LEMMA WrittenAppend ==
    ASSUME NEW R, NEW S, NEW T \in [S -> Seq(R)], NEW s \in Seq(S)
    PROVE  /\ Written(s, T) \in Seq(R) /\ Written(<< >>, T) = << >>
           /\ \A d \in S : Written(Append(s, d), T) = Join(Written(s, T), T[d])
<1> DEFINE Q == Seq(R)   Texts(x) == [k \in DOMAIN x |-> T[x[k]]]
<1>1. \A x \in Seq(S) : /\ Texts(x) \in Seq(Q) /\ Len(Texts(x)) = Len(x)
                        /\ \A k \in 1..Len(x) : Texts(x)[k] = T[x[k]]
  <2> TAKE x \in Seq(S)
  <2>1. Len(x) \in Nat /\ DOMAIN x = 1..Len(x) /\ \A k \in 1..Len(x) : x[k] \in S
    BY LenProperties, ElementOfSeq
  <2>2. Texts(x) = [k \in 1..Len(x) |-> T[x[k]]] /\ \A k \in 1..Len(x) : T[x[k]] \in Q
    BY <2>1
  <2> HIDE DEF Q
  <2> QED
    BY <2>1, <2>2
<1>2. Written(s, T) \in Seq(R)
  <2>1. Texts(s) \in Seq(Seq(R)) /\ Written(s, T) = FlattenSeq(Texts(s))
    BY <1>1 DEF Written
  <2> HIDE DEF Texts
  <2> QED
    BY <2>1, FlattenType
<1>3. Written(<< >>, T) = << >>
  <2>1. [k \in DOMAIN << >> |-> T[<< >>[k]]] = << >>
    OBVIOUS
  <2> QED
    BY <2>1, FlattenEmpty DEF Written
<1>4. ASSUME NEW d \in S PROVE Written(Append(s, d), T) = Join(Written(s, T), T[d])
  <2> DEFINE u == Append(s, d)   tu == Texts(u)   ts == Texts(s)   e == T[d]
  <2>1. u \in Seq(S) /\ Len(u) = Len(s) + 1 /\ (\A k \in 1..Len(s) : u[k] = s[k]) /\ u[Len(s) + 1] = d
    BY AppendProperties
  <2>2. Len(s) \in Nat /\ e \in Q
    BY LenProperties
  <2>3. ts \in Seq(Q) /\ Len(ts) = Len(s) /\ \A k \in 1..Len(s) : ts[k] = T[s[k]]
    BY <1>1
  <2> HIDE DEF u
  <2>4. tu \in Seq(Q) /\ Len(tu) = Len(u) /\ \A k \in 1..Len(u) : tu[k] = T[u[k]]
    BY <1>1, <2>1
  <2>5. Written(u, T) = FlattenSeq(tu) /\ Written(s, T) = FlattenSeq(ts)
    BY DEF Written
  <2> HIDE DEF tu, ts, Texts, Q
  <2> DEFINE tv == Append(ts, e)
  <2>6. tv \in Seq(Q) /\ Len(tv) = Len(ts) + 1 /\ (\A k \in 1..Len(ts) : tv[k] = ts[k]) /\ tv[Len(ts) + 1] = e
    BY <2>2, <2>3, AppendProperties
  <2> HIDE DEF tv
  <2>7. \A k \in 1..Len(tu) : tu[k] = tv[k]
    <3> TAKE k \in 1..Len(tu)
    <3>1. k \in 1..Len(s) \/ k = Len(s) + 1
      BY <2>1, <2>2, <2>4
    <3> QED
      BY <2>1, <2>2, <2>3, <2>4, <2>6, <3>1 DEF e
  <2>8. tu = tv
    <3>1. tu \in Seq(Q) /\ tv \in Seq(Q) /\ Len(tu) = Len(tv)
      BY <2>1, <2>3, <2>4, <2>6
    <3> QED
      BY ONLY <2>7, <3>1, SeqEqual
  <2>9. FlattenSeq(Append(ts, e)) = FlattenSeq(ts) \o e
    <3>1. ts \in Seq(Seq(R)) /\ e \in Seq(R)
      BY <2>2, <2>3 DEF Q
    <3> HIDE DEF e
    <3> QED
      BY <3>1, FlattenAppend
  <2> QED
    BY <2>5, <2>8, <2>9 DEF tv, u, Join
<1> QED
  BY <1>2, <1>3, <1>4

LEMMA FirstOnes ==
    ASSUME NEW S, NEW s \in Seq(S)
    PROVE  /\ Len(s) \in Nat /\ SubSeq(s, 1, 0) = << >> /\ SubSeq(s, 1, Len(s)) = s
           /\ \A n \in 0..Len(s) : SubSeq(s, 1, n) \in Seq(S)
           /\ \A n \in Nat : n < Len(s) => /\ s[n + 1] \in S
                                           /\ SubSeq(s, 1, n + 1) = Append(SubSeq(s, 1, n), s[n + 1])
           /\ \A d \in S : \A n \in 0..Len(s) : SubSeq(Append(s, d), 1, n) = SubSeq(s, 1, n)
<1>1. Len(s) \in Nat /\ SubSeq(s, 1, Len(s)) = s /\ \A k \in 1..Len(s) : s[k] \in S
  BY LenProperties, SubSeqFull, ElementOfSeq
<1>2. SubSeq(s, 1, 0) = << >>
  BY SubSeqEmpty
<1>3. \A n \in 0..Len(s) : SubSeq(s, 1, n) \in Seq(S)
  <2> TAKE n \in 0..Len(s)
  <2>1. n \in Int /\ 1 \in Int /\ \A k \in 1..n : s[k] \in S
    BY <1>1
  <2> QED
    BY <2>1, SubSeqProperties
<1>4. ASSUME NEW n \in Nat, n < Len(s)
      PROVE  s[n + 1] \in S /\ SubSeq(s, 1, n + 1) = Append(SubSeq(s, 1, n), s[n + 1])
  <2> DEFINE m == n + 1   u == SubSeq(s, 1, n)
  <2>1. 1 \in 1..Len(s) /\ m \in 1..Len(s) /\ m - 1 = n /\ s[m] \in S
    BY <1>1, <1>4
  <2>2. u \in Seq(S)
    BY <1>1, <1>3, <1>4
  <2> HIDE DEF m
  <2>3. SubSeq(s, 1, m) = SubSeq(s, 1, m - 1) \o <<s[m]>>
    BY <2>1, SubSeqRecursiveSecond
  <2>4. SubSeq(s, 1, m) = u \o <<s[m]>>
    BY <2>1, <2>3
  <2> HIDE DEF u
  <2>5. u \o <<s[m]>> = Append(u, s[m])
    BY <2>1, <2>2, AppendIsConcat
  <2> QED
    BY <2>1, <2>4, <2>5 DEF m, u
<1>5. ASSUME NEW d \in S, NEW n \in 0..Len(s) PROVE SubSeq(Append(s, d), 1, n) = SubSeq(s, 1, n)
  <2> DEFINE t == Append(s, d)
  <2>1. t \in Seq(S) /\ Len(t) = Len(s) + 1 /\ \A k \in 1..Len(s) : t[k] = s[k]
    BY AppendProperties
  <2> HIDE DEF t
  <2>2. n \in Int /\ 1 \in Int /\ n <= Len(s) /\ 0 <= n /\ (\A k \in 1..n : s[k] \in S) /\ \A k \in 1..n : t[k] \in S
    BY <1>1, <2>1
  <2> DEFINE a == SubSeq(t, 1, n)   b == SubSeq(s, 1, n)
  <2>3. /\ a \in Seq(S) /\ Len(a) = (IF 1 <= n THEN n - 1 + 1 ELSE 0) /\ \A k \in 1..(n - 1 + 1) : a[k] = t[1 + k - 1]
        /\ b \in Seq(S) /\ Len(b) = (IF 1 <= n THEN n - 1 + 1 ELSE 0) /\ \A k \in 1..(n - 1 + 1) : b[k] = s[1 + k - 1]
    BY <2>2, SubSeqProperties
  <2> HIDE DEF a, b
  <2>4. Len(a) = n /\ Len(b) = n /\ \A k \in 1..n : a[k] = t[k] /\ b[k] = s[k]
    BY <2>2, <2>3
  <2>5. \A k \in 1..Len(a) : a[k] = b[k]
    BY <1>1, <2>1, <2>2, <2>4
  <2>6. a = b
    BY ONLY <2>3, <2>4, <2>5, SeqEqual
  <2> QED
    BY <2>6 DEF a, b, t
<1> QED
  BY <1>1, <1>2, <1>3, <1>4, <1>5

\* The lexemes of the first n declarations of ds, and those of them that are in S.
Lead(ds, n) == Lexemes(SubSeq(ds, 1, n), DeclarationText)
Kept(ds, n, S) == Only(SubSeq(ds, 1, n), S)

LEMMA LeadIs ==
    ASSUME NEW s \in Seq(Declarable)
    PROVE  /\ Lexemes(s, DeclarationText) = Written(s, DeclarationTexts)
           /\ \A S : Only(s, S) = Written(s, Selected(S))
<1>1. \A k \in DOMAIN s : s[k] \in Declarable
  BY LenProperties, ElementOfSeq
<1>2. [k \in DOMAIN s |-> DeclarationText(s[k])] = [k \in DOMAIN s |-> DeclarationTexts[s[k]]]
  BY <1>1 DEF DeclarationTexts
<1>3. \A S : [k \in DOMAIN s |-> IF s[k] \in S THEN <<s[k]>> ELSE << >>] = [k \in DOMAIN s |-> Selected(S)[s[k]]]
  BY <1>1 DEF Selected
<1> QED
  BY <1>2, <1>3 DEF Lexemes, Only, Written

LEMMA LeadFacts ==
    ASSUME NEW ds \in Seq(Declarable)
    PROVE  /\ \A n \in 0..Len(ds) : Lead(ds, n) \in Seq(Lexicon)
           /\ Lead(ds, 0) = << >> /\ Lead(ds, Len(ds)) = Lexemes(ds, DeclarationText)
           /\ \A n \in Nat : n < Len(ds) =>
                 /\ ds[n + 1] \in Declarable /\ DeclarationText(ds[n + 1]) \in Seq(Lexicon)
                 /\ Lead(ds, n + 1) = Join(Lead(ds, n), DeclarationText(ds[n + 1]))
           /\ \A d \in Declarable : \A n \in 0..Len(ds) : Lead(Append(ds, d), n) = Lead(ds, n)
<1> DEFINE T == DeclarationTexts   First(n) == SubSeq(ds, 1, n)
<1>1. T \in [Declarable -> Seq(Lexicon)] /\ \A d \in Declarable : T[d] = DeclarationText(d) /\ T[d] \in Seq(Lexicon)
  BY DeclarationTextType DEF DeclarationTexts, Declarable
<1>2. /\ Len(ds) \in Nat /\ First(0) = << >> /\ First(Len(ds)) = ds
      /\ \A n \in 0..Len(ds) : First(n) \in Seq(Declarable)
      /\ \A n \in Nat : n < Len(ds) => ds[n + 1] \in Declarable /\ First(n + 1) = Append(First(n), ds[n + 1])
      /\ \A d \in Declarable : \A n \in 0..Len(ds) : SubSeq(Append(ds, d), 1, n) = First(n)
  BY FirstOnes
<1> HIDE DEF First, T
<1>3. \A n \in 0..Len(ds) : Lead(ds, n) = Written(First(n), T)
  BY <1>2, LeadIs DEF Lead, First, T
<1>9. /\ \A s \in Seq(Declarable) : Written(s, T) \in Seq(Lexicon)
      /\ Written(<< >>, T) = << >>
  <2>1. << >> \in Seq(Declarable)
    OBVIOUS
  <2> QED
    BY ONLY <1>1, <2>1, WrittenAppend, ZenonT(30)
<1>4. \A n \in 0..Len(ds) : Lead(ds, n) \in Seq(Lexicon)
  BY <1>2, <1>3, <1>9
<1>5. Lead(ds, 0) = << >>
  <2>1. 0 \in 0..Len(ds)
    BY <1>2
  <2> QED
    BY <1>2, <1>3, <1>9, <2>1
<1>6. Lead(ds, Len(ds)) = Lexemes(ds, DeclarationText)
  BY <1>2 DEF Lead, First
<1>7. ASSUME NEW n \in Nat, n < Len(ds)
      PROVE  /\ ds[n + 1] \in Declarable /\ DeclarationText(ds[n + 1]) \in Seq(Lexicon)
             /\ Lead(ds, n + 1) = Join(Lead(ds, n), DeclarationText(ds[n + 1]))
  <2>1. n \in 0..Len(ds) /\ n + 1 \in 0..Len(ds)
    BY <1>2, <1>7
  <2>2. ds[n + 1] \in Declarable /\ First(n + 1) = Append(First(n), ds[n + 1]) /\ First(n) \in Seq(Declarable)
    BY <1>2, <1>7, <2>1
  <2>3. Lead(ds, n + 1) = Written(First(n + 1), T) /\ Lead(ds, n) = Written(First(n), T)
    BY <1>3, <2>1
  <2> DEFINE d == ds[n + 1]   u == First(n)
  <2>4. d \in Declarable /\ u \in Seq(Declarable)
    BY <2>2
  <2> HIDE DEF d, u
  <2>5. Written(Append(u, d), T) = Join(Written(u, T), T[d])
    BY <1>1, <2>4, WrittenAppend
  <2>6. T[d] = DeclarationText(d) /\ T[d] \in Seq(Lexicon)
    BY <1>1, <2>4
  <2> QED
    BY <2>2, <2>3, <2>5, <2>6 DEF d, u
<1>8. \A d \in Declarable : \A n \in 0..Len(ds) : Lead(Append(ds, d), n) = Lead(ds, n)
  BY <1>2 DEF Lead, First
<1> QED
  BY <1>4, <1>5, <1>6, <1>7, <1>8

LEMMA KeptFacts ==
    ASSUME NEW ds \in Seq(Declarable), NEW S
    PROVE  /\ \A n \in 0..Len(ds) : Kept(ds, n, S) \in Seq(S)
           /\ Kept(ds, 0, S) = << >> /\ Kept(ds, Len(ds), S) = Only(ds, S)
           /\ \A n \in Nat : n < Len(ds) =>
                 /\ ds[n + 1] \in S => Kept(ds, n + 1, S) = Join(Kept(ds, n, S), <<ds[n + 1]>>)
                 /\ ds[n + 1] \notin S => Kept(ds, n + 1, S) = Kept(ds, n, S)
<1> DEFINE T == Selected(S)   First(n) == SubSeq(ds, 1, n)
<1>1. T \in [Declarable -> Seq(S)]
  <2>1. ASSUME NEW d \in Declarable PROVE (IF d \in S THEN <<d>> ELSE << >>) \in Seq(S)
    <3>1. CASE d \in S
      <4>1. << >> \in Seq(S)
        OBVIOUS
      <4>2. Join(<<d>>, << >>) \in Seq(S)
        BY <3>1, <4>1, JoinLength
      <4> QED
        BY <3>1, <4>2, JoinTuples
    <3>2. CASE d \notin S
      BY <3>2
    <3> QED
      BY <3>1, <3>2
  <2> QED
    BY <2>1 DEF Selected
<1>2. \A d \in Declarable : (d \in S => T[d] = <<d>>) /\ (d \notin S => T[d] = << >>)
  BY DEF Selected
<1>3. /\ Len(ds) \in Nat /\ First(0) = << >> /\ First(Len(ds)) = ds
      /\ \A n \in 0..Len(ds) : First(n) \in Seq(Declarable)
      /\ \A n \in Nat : n < Len(ds) => ds[n + 1] \in Declarable /\ First(n + 1) = Append(First(n), ds[n + 1])
  BY FirstOnes
<1> HIDE DEF First, T
<1>4. \A n \in 0..Len(ds) : Kept(ds, n, S) = Written(First(n), T)
  BY <1>3, LeadIs DEF Kept, First, T
<1>5. /\ \A s \in Seq(Declarable) : Written(s, T) \in Seq(S)
      /\ Written(<< >>, T) = << >>
  <2>1. << >> \in Seq(Declarable)
    OBVIOUS
  <2> QED
    BY ONLY <1>1, <2>1, WrittenAppend, ZenonT(30)
<1>6. \A n \in 0..Len(ds) : Kept(ds, n, S) \in Seq(S)
  BY <1>3, <1>4, <1>5
<1>7. Kept(ds, 0, S) = << >>
  <2>1. 0 \in 0..Len(ds)
    BY <1>3
  <2> QED
    BY <1>3, <1>4, <1>5, <2>1
<1>8. Kept(ds, Len(ds), S) = Only(ds, S)
  BY <1>3 DEF Kept, First
<1>9. ASSUME NEW n \in Nat, n < Len(ds)
      PROVE  /\ ds[n + 1] \in S => Kept(ds, n + 1, S) = Join(Kept(ds, n, S), <<ds[n + 1]>>)
             /\ ds[n + 1] \notin S => Kept(ds, n + 1, S) = Kept(ds, n, S)
  <2>1. n \in 0..Len(ds) /\ n + 1 \in 0..Len(ds)
    BY <1>3, <1>9
  <2>2. ds[n + 1] \in Declarable /\ First(n + 1) = Append(First(n), ds[n + 1]) /\ First(n) \in Seq(Declarable)
    BY <1>3, <1>9, <2>1
  <2>3. Kept(ds, n + 1, S) = Written(First(n + 1), T) /\ Kept(ds, n, S) = Written(First(n), T)
    BY <1>4, <2>1
  <2> DEFINE d == ds[n + 1]   u == First(n)   v == Written(u, T)
  <2>4. d \in Declarable /\ u \in Seq(Declarable)
    BY <2>2
  <2>5. v \in Seq(S)
    BY <1>5, <2>4
  <2> HIDE DEF d, u
  <2>6. Written(Append(u, d), T) = Join(v, T[d])
    BY ONLY <1>1, <2>4, WrittenAppend DEF v
  <2> HIDE DEF v
  <2>7. Join(v, << >>) = v
    BY <2>5, ConcatEmptySeq DEF Join
  <2>8. (d \in S => Join(v, T[d]) = Join(v, <<d>>)) /\ (d \notin S => Join(v, T[d]) = v)
    BY <1>2, <2>4, <2>7
  <2> QED
    BY <2>2, <2>3, <2>6, <2>8 DEF d, u, v
<1> QED
  BY <1>6, <1>7, <1>8, <1>9

LEMMA LengthOfAppended ==
    ASSUME NEW S, NEW s \in Seq(S), NEW d \in S
    PROVE  Join(s, <<d>>) \in Seq(S) /\ Len(Join(s, <<d>>)) = Len(s) + 1 /\ Len(s) \in Nat
<1>1. s \o <<d>> = Append(s, d)
  BY AppendIsConcat
<1>2. Append(s, d) \in Seq(S) /\ Len(Append(s, d)) = Len(s) + 1 /\ Len(s) \in Nat
  BY AppendProperties, LenProperties
<1> QED
  BY <1>1, <1>2 DEF Join

\* Every declaration is an actor or a capability, and not both.
LEMMA KeptLength ==
    ASSUME NEW ds \in Seq(Declarable)
    PROVE  \A n \in 0..Len(ds) : Len(Kept(ds, n, Actors)) + Len(Kept(ds, n, Capabilities)) = n
<1> DEFINE a(n) == Len(Kept(ds, n, Actors))   c(n) == Len(Kept(ds, n, Capabilities))
           N == {n \in Nat : n <= Len(ds) => a(n) + c(n) = n}
<1>1. Len(ds) \in Nat /\ a(0) = 0 /\ c(0) = 0
  <2>1. Len(<< >>) = 0
    OBVIOUS
  <2> QED
    BY <2>1, KeptFacts, LenProperties
<1>2. ASSUME NEW n \in Nat, n <= Len(ds) => a(n) + c(n) = n
      PROVE  n + 1 <= Len(ds) => a(n + 1) + c(n + 1) = n + 1
  <2> SUFFICES ASSUME n + 1 <= Len(ds) PROVE a(n + 1) + c(n + 1) = n + 1
    OBVIOUS
  <2>1. n < Len(ds) /\ n \in 0..Len(ds) /\ a(n) + c(n) = n
    BY <1>1, <1>2
  <2> DEFINE d == ds[n + 1]   ka == Kept(ds, n, Actors)   kc == Kept(ds, n, Capabilities)
  <2>2. /\ ka \in Seq(Actors) /\ kc \in Seq(Capabilities)
        /\ d \in Actors => Kept(ds, n + 1, Actors) = Join(ka, <<d>>)
        /\ d \notin Actors => Kept(ds, n + 1, Actors) = ka
        /\ d \in Capabilities => Kept(ds, n + 1, Capabilities) = Join(kc, <<d>>)
        /\ d \notin Capabilities => Kept(ds, n + 1, Capabilities) = kc
    BY <2>1, KeptFacts
  <2>3. (d \in Actors /\ d \notin Capabilities) \/ (d \in Capabilities /\ d \notin Actors)
    <3>1. d \in Declarable
      BY <2>1, LeadFacts
    <3> HIDE DEF d
    <3>2. d \in Actors \/ d \in Capabilities
      BY <3>1 DEF Declarable
    <3>3. d \in Actors => d \notin Capabilities
      BY DeclarationTextType
    <3> QED
      BY <3>2, <3>3
  <2>4. Len(ka) \in Nat /\ Len(kc) \in Nat /\ a(n) = Len(ka) /\ c(n) = Len(kc)
    BY <2>2, LenProperties
  <2> HIDE DEF d, ka, kc
  <2>5. CASE d \in Actors
    <3>1. Len(Join(ka, <<d>>)) = Len(ka) + 1
      BY <2>2, <2>5, LengthOfAppended
    <3>2. a(n + 1) = Len(ka) + 1 /\ c(n + 1) = Len(kc)
      BY <2>2, <2>3, <2>5, <3>1
    <3> HIDE DEF a, c
    <3> QED
      BY <2>1, <2>4, <3>2
  <2>6. CASE d \in Capabilities
    <3>1. Len(Join(kc, <<d>>)) = Len(kc) + 1
      BY <2>2, <2>6, LengthOfAppended
    <3>2. a(n + 1) = Len(ka) /\ c(n + 1) = Len(kc) + 1
      BY <2>2, <2>3, <2>6, <3>1
    <3> HIDE DEF a, c
    <3> QED
      BY <2>1, <2>4, <3>2
  <2> QED
    BY <2>3, <2>5, <2>6
<1>3. Nat \subseteq N
  <2>1. 0 \in N /\ \A n \in Nat : n \in N => n + 1 \in N
    <3> HIDE DEF a, c
    <3> QED
      BY <1>1, <1>2
  <2> HIDE DEF N
  <2> QED
    BY <2>1, InductiveSet
<1> QED
  <2> HIDE DEF a, c
  <2>1. \A n \in 0..Len(ds) : a(n) + c(n) = n
    BY <1>1, <1>3
  <2> QED
    BY <2>1 DEF a, c

----------------------------------------------------------------------------
(***************************************************************************)
(* Prefixes.                                                               *)
(***************************************************************************)
LEMMA PrefixIs ==
    ASSUME NEW S, NEW s \in Seq(S), NEW t \in Seq(S)
    PROVE  /\ Len(s) \in Nat /\ Len(t) \in Nat
           /\ IsPrefix(s, t) <=> Len(s) <= Len(t) /\ \A j \in 1..Len(s) : s[j] = t[j]
           /\ IsPrefix(s, t) => SubSeq(t, 1, Len(s)) = s
<1> DEFINE u == SubSeq(t, 1, Len(s))
<1>1. /\ Len(s) \in Nat /\ Len(t) \in Nat /\ SubSeq(s, 1, Len(s)) = s
      /\ \A j \in 1..Len(t) : t[j] \in S
  BY LenProperties, ElementOfSeq, SubSeqFull
<1>2. IsPrefix(s, t) <=> Len(s) <= Len(t) /\ s = u
  BY <1>1 DEF IsPrefix
<1>3. ASSUME Len(s) <= Len(t)
      PROVE  u \in Seq(S) /\ Len(u) = Len(s) /\ \A j \in 1..Len(s) : u[j] = t[j]
  <2> DEFINE n == Len(s)
  <2>1. n \in Int /\ 1 \in Int /\ n \in Nat /\ \A j \in 1..n : t[j] \in S
    BY <1>1, <1>3
  <2> HIDE DEF n
  <2>2. /\ SubSeq(t, 1, n) \in Seq(S) /\ Len(SubSeq(t, 1, n)) = (IF 1 <= n THEN n - 1 + 1 ELSE 0)
        /\ \A j \in 1..(n - 1 + 1) : SubSeq(t, 1, n)[j] = t[1 + j - 1]
    BY <2>1, SubSeqProperties
  <2> DEFINE v == SubSeq(t, 1, n)
  <2>3. v = u
    BY DEF n
  <2> HIDE DEF v, u
  <2>4. v \in Seq(S) /\ Len(v) = n /\ \A j \in 1..n : v[j] = t[j]
    BY <2>1, <2>2 DEF v
  <2> QED
    BY <2>3, <2>4 DEF n
<1> HIDE DEF u
<1>4. ASSUME Len(s) <= Len(t), \A j \in 1..Len(s) : s[j] = t[j] PROVE s = u
  <2>1. u \in Seq(S) /\ Len(s) = Len(u) /\ \A j \in 1..Len(s) : s[j] = u[j]
    BY <1>3, <1>4
  <2> QED
    BY <2>1, SeqEqual
<1> QED
  BY <1>1, <1>2, <1>3, <1>4 DEF u

LEMMA PrefixFacts ==
    ASSUME NEW S, NEW s \in Seq(S)
    PROVE  /\ IsPrefix(s, s)
           /\ \A t, u \in Seq(S) : IsPrefix(s, t) => IsPrefix(s, Join(t, u))
           /\ \A t, u \in Seq(S) : Join(s, u) \in Seq(S) /\ (IsPrefix(Join(s, u), t) => IsPrefix(s, t))
<1>1. IsPrefix(s, s)
  BY PrefixIs
<1>2. ASSUME NEW t \in Seq(S), NEW u \in Seq(S)
      PROVE  /\ Join(t, u) \in Seq(S) /\ Len(t) \in Nat /\ Len(u) \in Nat
             /\ Len(Join(t, u)) = Len(t) + Len(u) /\ \A j \in 1..Len(t) : Join(t, u)[j] = t[j]
  <2>1. /\ t \o u \in Seq(S) /\ Len(t \o u) = Len(t) + Len(u) /\ Len(t) \in Nat /\ Len(u) \in Nat
        /\ \A j \in 1..(Len(t) + Len(u)) : (t \o u)[j] = IF j <= Len(t) THEN t[j] ELSE u[j - Len(t)]
    BY ConcatProperties, LenProperties
  <2>2. \A j \in 1..Len(t) : j \in 1..(Len(t) + Len(u)) /\ j <= Len(t)
    BY <2>1
  <2> QED
    BY <2>1, <2>2 DEF Join
<1>3. ASSUME NEW t \in Seq(S), NEW u \in Seq(S), IsPrefix(s, t) PROVE IsPrefix(s, Join(t, u))
  <2> DEFINE v == Join(t, u)
  <2>1. v \in Seq(S) /\ Len(t) \in Nat /\ Len(u) \in Nat /\ Len(v) = Len(t) + Len(u) /\ \A j \in 1..Len(t) : v[j] = t[j]
    BY <1>2
  <2> HIDE DEF v
  <2>2. Len(s) \in Nat /\ Len(s) <= Len(t) /\ \A j \in 1..Len(s) : s[j] = t[j]
    BY <1>3, PrefixIs
  <2>3. Len(s) <= Len(v) /\ \A j \in 1..Len(s) : s[j] = v[j]
    BY <2>1, <2>2
  <2>4. IsPrefix(s, v)
    BY <2>1, <2>3, PrefixIs
  <2> QED
    BY <2>4 DEF v
<1>4. ASSUME NEW t \in Seq(S), NEW u \in Seq(S), IsPrefix(Join(s, u), t) PROVE IsPrefix(s, t)
  <2> DEFINE v == Join(s, u)
  <2>1. v \in Seq(S) /\ Len(s) \in Nat /\ Len(u) \in Nat /\ Len(v) = Len(s) + Len(u) /\ \A j \in 1..Len(s) : v[j] = s[j]
    BY <1>2
  <2>2. IsPrefix(v, t)
    BY <1>4
  <2> HIDE DEF v
  <2>3. Len(t) \in Nat /\ Len(v) <= Len(t) /\ \A j \in 1..Len(v) : v[j] = t[j]
    BY <2>1, <2>2, PrefixIs, ZenonT(30)
  <2>4. Len(s) <= Len(t) /\ 1..Len(s) \subseteq 1..Len(v)
    BY <2>1, <2>3
  <2>5. \A j \in 1..Len(s) : s[j] = t[j]
    BY <2>1, <2>3, <2>4
  <2> QED
    BY <2>3, <2>4, <2>5, PrefixIs
<1> QED
  BY <1>1, <1>2, <1>3, <1>4

\* A text that begins with n declarations begins with the first m of them.
LEMMA LeadPrefix ==
    ASSUME NEW ds \in Seq(Declarable), NEW t \in Seq(Lexicon), NEW n \in 0..Len(ds), IsPrefix(Lead(ds, n), t)
    PROVE  \A m \in 0..n : IsPrefix(Lead(ds, m), t)
<1> DEFINE Good(x) == \A m \in 0..x : IsPrefix(Lead(ds, m), t)
           N == {x \in Nat : x <= Len(ds) /\ IsPrefix(Lead(ds, x), t) => Good(x)}
<1>1. Len(ds) \in Nat
  BY LenProperties
<1>2. 0 \in N
  <2>1. \A m \in 0..0 : m = 0
    OBVIOUS
  <2> QED
    BY <2>1
<1>3. ASSUME NEW x \in Nat, x \in N PROVE x + 1 \in N
  <2> SUFFICES ASSUME x + 1 <= Len(ds), IsPrefix(Lead(ds, x + 1), t) PROVE Good(x + 1)
    OBVIOUS
  <2>1. x < Len(ds) /\ x <= Len(ds) /\ x \in 0..Len(ds)
    BY <1>1
  <2> DEFINE a == Lead(ds, x)   b == DeclarationText(ds[x + 1])
  <2>2. a \in Seq(Lexicon) /\ b \in Seq(Lexicon) /\ Lead(ds, x + 1) = Join(a, b)
    BY <2>1, LeadFacts
  <2> HIDE DEF b
  <2>3. IsPrefix(Join(a, b), t)
    BY <2>2
  <2> HIDE DEF a
  <2>4. IsPrefix(a, t)
    BY <2>2, <2>3, PrefixFacts
  <2>5. Good(x)
    BY <1>3, <2>1, <2>4 DEF a
  <2>6. \A m \in 0..(x + 1) : m \in 0..x \/ m = x + 1
    OBVIOUS
  <2> QED
    BY <2>5, <2>6
<1>4. Nat \subseteq N
  <2> HIDE DEF N
  <2> QED
    BY <1>2, <1>3, InductiveSet
<1> QED
  BY <1>1, <1>4

LEMMA PrefixSpans ==
    ASSUME text \in Seq(Lexicon), NEW s \in Seq(Lexicon), IsPrefix(s, text)
    PROVE  Spans(1, Len(s) + 1, s)
<1>1. Len(s) \in Nat /\ Len(text) \in Nat /\ Len(s) <= Len(text) /\ SubSeq(text, 1, Len(s)) = s
  BY PrefixIs
<1>2. 1 \in Positions /\ Len(s) + 1 \in Positions /\ 1 <= Len(s) + 1 /\ (Len(s) + 1) - 1 = Len(s)
  BY <1>1 DEF Positions
<1> QED
  BY <1>1, <1>2 DEF Spans, Consumed

LEMMA NextSpans ==
    ASSUME text \in Seq(Lexicon), NEW ds \in Seq(Declarable), NEW n \in 0..Len(ds), IsPrefix(Lead(ds, n), text),
           NEW k \in Nat, k < n
    PROVE  Spans(Len(Lead(ds, k)) + 1, Len(Lead(ds, k + 1)) + 1, DeclarationText(ds[k + 1]))
<1>1. Len(ds) \in Nat /\ k < Len(ds) /\ k \in 0..Len(ds) /\ k + 1 \in 0..Len(ds) /\ k + 1 \in 0..n
  BY LenProperties
<1> DEFINE a == Lead(ds, k)   b == DeclarationText(ds[k + 1])   c == Lead(ds, k + 1)
<1>2. a \in Seq(Lexicon) /\ b \in Seq(Lexicon) /\ c \in Seq(Lexicon) /\ c = Join(a, b)
  BY <1>1, LeadFacts
<1>3. IsPrefix(c, text)
  BY <1>1, LeadPrefix
<1> HIDE DEF a, b, c
<1>4. Spans(1, Len(c) + 1, c)
  BY <1>2, <1>3, PrefixSpans
<1> DEFINE h == Len(c) + 1
<1>5. Spans(1, h, Join(a, b))
  BY <1>2, <1>4
<1> HIDE DEF h
<1>6. PICK j \in Positions : j = 1 + Len(a) /\ Spans(j, h, b)
  BY ONLY <1>2, <1>5, SpansCut, text \in Seq(Lexicon)
<1>7. Len(a) \in Nat
  BY <1>2, LenProperties
<1>8. j = Len(a) + 1
  BY <1>6, <1>7
<1> QED
  BY <1>6, <1>8 DEF a, b, c, h

\* The lexemes before the one that is damaged.
LEMMA DamagedStart ==
    ASSUME text \in Seq(Lexicon), NEW i \in DOMAIN text, NEW t,
           \/ t = RemoveAt(text, i)
           \/ t = InsertAt(text, i, text[i])
           \/ i < Len(text) /\ t = [text EXCEPT ![i] = text[i + 1], ![i + 1] = text[i]],
           NEW s \in Seq(Lexicon), IsPrefix(s, text), Len(s) < i
    PROVE  IsPrefix(s, t)
<1>1. Len(text) \in Nat /\ DOMAIN text = 1..Len(text) /\ i \in Nat /\ 1 <= i /\ i <= Len(text)
  BY LenProperties
<1>2. t \in Seq(Lexicon)
  BY DamagedText
<1>3. Len(s) \in Nat /\ Len(s) <= Len(text) /\ (\A j \in 1..Len(s) : s[j] = text[j])
  BY PrefixIs
<1>4. CASE t = RemoveAt(text, i) \/ t = InsertAt(text, i, text[i])
  <2> DEFINE a == SubSeq(text, 1, i - 1)   b == SubSeq(text, i + 1, Len(text))
             c == SubSeq(text, i, Len(text))   e == <<text[i]>>
  <2>1. RemoveAt(text, i) = Join(a, b) /\ InsertAt(text, i, text[i]) = Join(Join(a, e), c)
    BY DEF RemoveAt, InsertAt, Join
  <2>2. a \in Seq(Lexicon) /\ b \in Seq(Lexicon) /\ c \in Seq(Lexicon) /\ Len(a) = i - 1
    <3>1. /\ 1 \in 1..(Len(text) + 1) /\ i \in 1..(Len(text) + 1) /\ i + 1 \in 1..(Len(text) + 1)
          /\ i - 1 \in 0..Len(text) /\ Len(text) \in 0..Len(text)
      BY <1>1
    <3>2. Len(a) = IF 1 <= i - 1 THEN (i - 1) - 1 + 1 ELSE 0
      BY <3>1, PartsType
    <3>3. a \in Seq(Lexicon) /\ b \in Seq(Lexicon) /\ c \in Seq(Lexicon)
      BY <3>1, PartsType
    <3> HIDE DEF a, b, c
    <3>4. Len(a) = i - 1
      BY <1>1, <3>2
    <3> QED
      BY <3>3, <3>4
  <2>3. \A j \in 1..(i - 1) : a[j] = text[j]
    <3> DEFINE n == i - 1
    <3>1. 1 \in Int /\ n \in Int /\ \A j \in 1..n : text[j] \in Lexicon
      BY <1>1, TextFacts
    <3> HIDE DEF n
    <3>2. \A j \in 1..(n - 1 + 1) : SubSeq(text, 1, n)[j] = text[1 + j - 1]
      BY <3>1, SubSeqProperties
    <3>3. \A j \in 1..n : SubSeq(text, 1, n)[j] = text[j]
      BY <3>1, <3>2
    <3> QED
      BY <3>3 DEF n
  <2>4. e \in Seq(Lexicon)
    BY <1>1, TextFacts
  <2> HIDE DEF a, b, c, e
  <2>5. IsPrefix(s, a)
    <3>1. Len(s) <= Len(a) /\ \A j \in 1..Len(s) : j \in 1..(i - 1)
      BY <1>1, <1>3, <2>2
    <3>2. \A j \in 1..Len(s) : s[j] = a[j]
      BY <1>3, <2>3, <3>1
    <3> QED
      BY <2>2, <3>1, <3>2, PrefixIs
  <2>6. Join(a, e) \in Seq(Lexicon)
    BY <2>2, <2>4, JoinFacts
  <2>7. IsPrefix(s, Join(a, b)) /\ IsPrefix(s, Join(a, e))
    BY <2>2, <2>4, <2>5, PrefixFacts
  <2> DEFINE f == Join(a, e)
  <2> HIDE DEF f
  <2>8. IsPrefix(s, Join(f, c))
    BY <2>2, <2>6, <2>7, PrefixFacts DEF f
  <2> QED
    BY <1>4, <2>1, <2>7, <2>8 DEF f
<1>5. CASE i < Len(text) /\ t = [text EXCEPT ![i] = text[i + 1], ![i + 1] = text[i]]
  <2>1. DOMAIN t = DOMAIN text
    BY <1>5
  <2>2. Len(t) = Len(text)
    <3>1. DOMAIN t = 1..Len(t) /\ Len(t) \in Nat
      BY <1>2, LenProperties
    <3> QED
      BY <1>1, <2>1, <3>1
  <2>3. \A j \in 1..Len(s) : j \in DOMAIN text /\ j # i /\ j # i + 1
    BY <1>1, <1>3
  <2>4. \A j \in 1..Len(s) : t[j] = text[j]
    BY <1>5, <2>3
  <2>5. Len(s) <= Len(t) /\ \A j \in 1..Len(s) : s[j] = t[j]
    BY <1>3, <2>2, <2>4
  <2> QED
    BY <1>2, <2>5, PrefixIs
<1> QED
  BY <1>4, <1>5

----------------------------------------------------------------------------
(***************************************************************************)
(* How far the declarations of a text have been read.  If the text begins  *)
(* with n declarations, the first k of them have been read and nothing     *)
(* else, or all n and something after them.                                *)
(***************************************************************************)
ReadUpTo(k) ==
    /\ at = Len(Lead(declared, k)) + 1
    /\ actors = Kept(declared, k, Actors)
    /\ capabilities = Kept(declared, k, Capabilities)

ReadBeyond(n) ==
    /\ Len(Lead(declared, n)) + 1 < at
    /\ IsPrefix(Kept(declared, n, Actors), actors)
    /\ IsPrefix(Kept(declared, n, Capabilities), capabilities)

Followed(n) ==
    \/ \E k \in 0..n : ReadUpTo(k) /\ (pc = "parsed" => k = n)
    \/ ReadBeyond(n)

\* Until it is damaged a text is that of its declarations.
AsWritten ==
    pc = "writing" =>
        /\ actors = << >> /\ capabilities = << >>
        /\ intact = Len(declared) => text = Lead(declared, Len(declared))

MeantInv ==
    /\ Inv
    /\ AsWritten
    /\ IsPrefix(Lead(declared, intact), text)
    /\ \A n \in 0..Len(declared) : IsPrefix(Lead(declared, n), text) => Followed(n)

LEMMA MeantTypes ==
    ASSUME Inv
    PROVE  /\ declared \in Seq(Declarable) /\ Len(declared) \in Nat /\ intact \in 0..Len(declared)
           /\ text \in Seq(Lexicon) /\ at \in Positions
           /\ actors \in Seq(Actors) /\ capabilities \in Seq(Capabilities)
BY LenProperties DEF Inv, TypeOK, Declarable

\* Nothing of a text is read before it is written.
LEMMA NothingRead ==
    ASSUME NEW ds \in Seq(Declarable)
    PROVE  Len(Lead(ds, 0)) + 1 = 1 /\ \A S : Kept(ds, 0, S) = << >>
<1>1. Lead(ds, 0) = << >> /\ \A S : Kept(ds, 0, S) = << >>
  BY LeadFacts, KeptFacts
<1>2. Len(<< >>) = 0
  OBVIOUS
<1> QED
  BY <1>1, <1>2

LEMMA WritingFollowed ==
    ASSUME Inv, pc = "writing", actors = << >>, capabilities = << >>
    PROVE  \A n \in 0..Len(declared) : Followed(n)
<1>1. declared \in Seq(Declarable) /\ at = 1 /\ pc # "parsed"
  BY MeantTypes DEF Inv
<1>2. ReadUpTo(0)
  BY <1>1, NothingRead DEF ReadUpTo
<1>3. \A n \in 0..Len(declared) : 0 \in 0..n
  BY MeantTypes
<1> QED
  BY <1>1, <1>2, <1>3 DEF Followed

LEMMA InitMeant == Init => MeantInv
<1> SUFFICES ASSUME Init PROVE MeantInv
  OBVIOUS
<1>1. Inv
  BY InitInv
<1>2. /\ declared = << >> /\ text = << >> /\ intact = 0 /\ pc = "writing"
      /\ actors = << >> /\ capabilities = << >> /\ Len(<< >>) = 0
  BY DEF Init
<1>3. declared \in Seq(Declarable) /\ text \in Seq(Lexicon)
  BY <1>1, MeantTypes
<1>4. Lead(declared, 0) = text
  BY <1>2, <1>3, LeadFacts
<1>5. IsPrefix(Lead(declared, intact), text)
  BY <1>2, <1>3, <1>4, PrefixFacts
<1>6. AsWritten
  BY <1>2, <1>4 DEF AsWritten
<1>7. \A n \in 0..Len(declared) : Followed(n)
  BY <1>1, <1>2, WritingFollowed
<1> QED
  BY <1>1, <1>5, <1>6, <1>7 DEF MeantInv

LEMMA DeclareMeant == MeantInv /\ Declare => MeantInv'
<1> SUFFICES ASSUME MeantInv, Declare PROVE MeantInv'
  OBVIOUS
<1>1. Inv /\ Inv' /\ AsWritten
  BY DeclareInv DEF MeantInv
<1>2. /\ declared \in Seq(Declarable) /\ Len(declared) \in Nat
      /\ intact = Len(declared) /\ intact' = intact + 1 /\ pc = "writing" /\ pc' = "writing"
      /\ actors' = << >> /\ capabilities' = << >> /\ at' = 1
      /\ text = Lead(declared, Len(declared))
  BY <1>1, MeantTypes DEF AsWritten, Declare, reading, Inv
<1>3. PICK d \in Declarations[Len(declared) + 1] :
        declared' = Append(declared, d) /\ text' = text \o DeclarationText(d)
  BY DEF Declare
<1>4. d \in Declarable
  <2>1. Len(declared) + 1 \in Nat /\ Len(declared) < Len(Declarations)
    BY <1>2 DEF Declare
  <2>2. Len(declared) + 1 \in DOMAIN Declarations
    BY <1>2, <2>1, DeclarationsAssumption
  <2> QED
    BY <2>2, DeclarationsAssumption DEF Declarable
<1> DEFINE n == Len(declared)   ds == Append(declared, d)
<1>5. ds \in Seq(Declarable) /\ Len(ds) = n + 1 /\ ds[n + 1] = d /\ n \in 0..n /\ n < Len(ds) /\ n \in Nat
  BY <1>2, <1>4, AppendProperties
<1>6. Lead(ds, n) = Lead(declared, n)
  BY <1>2, <1>4, <1>5, LeadFacts
<1>7. declared' = ds /\ text = Lead(declared, n) /\ text' = Join(text, DeclarationText(d)) /\ intact' = n + 1
  BY <1>2, <1>3 DEF Join
<1> HIDE DEF ds, n
<1>8. /\ Lead(ds, n + 1) = Join(Lead(ds, n), DeclarationText(ds[n + 1]))
      /\ n + 1 \in 0..Len(ds) /\ Lead(ds, n + 1) \in Seq(Lexicon)
  <2>1. n + 1 \in 0..Len(ds)
    BY <1>5
  <2> QED
    BY <1>5, <2>1, LeadFacts
<1>9. text' = Lead(ds, n + 1)
  BY <1>5, <1>6, <1>7, <1>8
<1>10. IsPrefix(Lead(declared', intact'), text')
  BY <1>7, <1>8, <1>9, PrefixFacts
<1>11. AsWritten'
  BY <1>2, <1>5, <1>7, <1>9 DEF AsWritten
<1>12. \A m \in 0..Len(declared') : Followed(m)'
  <2> TAKE m \in 0..Len(declared')
  <2>1. declared' \in Seq(Declarable) /\ 0 \in 0..m
    BY <1>5, <1>7
  <2>2. Len(Lead(declared', 0)) + 1 = 1 /\ Kept(declared', 0, Actors) = << >> /\ Kept(declared', 0, Capabilities) = << >>
    BY <2>1, NothingRead
  <2>3. ReadUpTo(0)' /\ pc' # "parsed"
    BY <1>2, <2>2 DEF ReadUpTo
  <2> QED
    BY <2>1, <2>3 DEF Followed
<1> QED
  BY <1>1, <1>10, <1>11, <1>12 DEF MeantInv

LEMMA DamageMeant == MeantInv /\ Damage => MeantInv'
<1> SUFFICES ASSUME MeantInv, Damage PROVE MeantInv'
  OBVIOUS
<1>1. Inv /\ Inv' /\ AsWritten
  BY DamageInv DEF MeantInv
<1>2. /\ declared \in Seq(Declarable) /\ Len(declared) \in Nat /\ text \in Seq(Lexicon)
      /\ intact = Len(declared) /\ pc = "writing" /\ pc' = "writing" /\ declared' = declared
      /\ actors' = << >> /\ capabilities' = << >> /\ at' = 1
      /\ text = Lead(declared, Len(declared))
  BY <1>1, MeantTypes DEF AsWritten, Damage, reading, Inv
<1>3. PICK i \in DOMAIN text :
        /\ \/ text' = RemoveAt(text, i)
           \/ text' = InsertAt(text, i, text[i])
           \/ i < Len(text) /\ text' = [text EXCEPT ![i] = text[i + 1], ![i + 1] = text[i]]
        /\ intact' = DeclaredBefore(i)
  BY DEF Damage
<1>4. i \in Nat /\ 1 <= i /\ i <= Len(text) /\ Len(text) \in Nat
  BY <1>2, LenProperties
<1> DEFINE n == intact'
<1>5. n \in 0..Len(declared) /\ Len(Lead(declared, n)) < i
  <2>1. declared \in Seq(Actors \cup Capabilities)
    BY <1>2 DEF Declarable
  <2>2. /\ DeclaredBefore(i) \in 0..Len(declared)
        /\ Len(Lexemes(SubSeq(declared, 1, DeclaredBefore(i)), DeclarationText)) < i
    BY <1>4, <2>1, DeclaredBeforeType
  <2> QED
    BY <1>3, <2>2 DEF Lead
<1>6. Lead(declared, n) \in Seq(Lexicon) /\ IsPrefix(Lead(declared, n), text)
  <2>1. Len(declared) \in 0..Len(declared) /\ n \in 0..Len(declared)
    BY <1>2, <1>5
  <2>2. IsPrefix(Lead(declared, Len(declared)), text)
    BY <1>2, PrefixFacts
  <2> HIDE DEF n
  <2> QED
    BY <1>2, <2>1, <2>2, LeadPrefix, LeadFacts
<1> DEFINE s == Lead(declared, n)   t == text'
<1>7. IsPrefix(s, t)
  <2>1. \/ t = RemoveAt(text, i)
        \/ t = InsertAt(text, i, text[i])
        \/ i < Len(text) /\ t = [text EXCEPT ![i] = text[i + 1], ![i + 1] = text[i]]
    BY <1>3
  <2>2. s \in Seq(Lexicon) /\ IsPrefix(s, text) /\ Len(s) < i
    BY <1>5, <1>6
  <2> HIDE DEF s, t, n
  <2> QED
    BY ONLY <1>2, <2>1, <2>2, DamagedStart, i \in DOMAIN text
<1>8. n # Len(declared)
  BY <1>2, <1>4, <1>5
<1>9. AsWritten'
  BY <1>2, <1>8 DEF AsWritten
<1>10. \A m \in 0..Len(declared') : Followed(m)'
  <2> TAKE m \in 0..Len(declared')
  <2>1. declared' \in Seq(Declarable) /\ 0 \in 0..m
    BY <1>2
  <2>2. Len(Lead(declared', 0)) + 1 = 1 /\ Kept(declared', 0, Actors) = << >> /\ Kept(declared', 0, Capabilities) = << >>
    BY <2>1, NothingRead
  <2>3. ReadUpTo(0)' /\ pc' # "parsed"
    BY <1>2, <2>2 DEF ReadUpTo
  <2> QED
    BY <2>1, <2>3 DEF Followed
<1> QED
  BY <1>1, <1>2, <1>7, <1>9, <1>10 DEF MeantInv

LEMMA LeadTypes ==
    ASSUME NEW ds \in Seq(Declarable), NEW n \in 0..Len(ds)
    PROVE  /\ n \in Nat /\ Lead(ds, n) \in Seq(Lexicon) /\ Len(Lead(ds, n)) \in Nat
           /\ Kept(ds, n, Actors) \in Seq(Actors) /\ Kept(ds, n, Capabilities) \in Seq(Capabilities)
<1>1. n \in Nat
  OBVIOUS
<1>2. Lead(ds, n) \in Seq(Lexicon)
  BY LeadFacts
<1>3. Kept(ds, n, Actors) \in Seq(Actors) /\ Kept(ds, n, Capabilities) \in Seq(Capabilities)
  BY KeptFacts
<1>4. Len(Lead(ds, n)) \in Nat
  BY <1>2, LenProperties
<1> QED
  BY <1>1, <1>2, <1>3, <1>4

\* A turn of the list gets further.
LEMMA TurnAhead ==
    ASSUME text \in Seq(Lexicon), NEW i \in Positions
    PROVE  \A m \in actor_definition[i] \cup capability_definition[i] : m.to \in Positions /\ i < m.to
<1>1. \A x \in Actors : ActorTexts[x] # << >>
  BY ActorTextType
<1>2. \A x \in Capabilities : CapabilityTexts[x] # << >>
  BY CapabilityTextType
<1>3. Ahead(actor_definition) /\ Ahead(capability_definition)
  BY <1>1, <1>2, ActorReads, CapabilityReads, ReadsAhead
<1> QED
  BY <1>3 DEF Ahead

\* What a turn does where k of n intact declarations have been read.
LEMMA NextTurn ==
    ASSUME Inv, NEW n \in 0..Len(declared), IsPrefix(Lead(declared, n), text),
           NEW k \in Nat, k < n, ReadUpTo(k)
    PROVE  LET d == declared[k + 1]   i == Len(Lead(declared, k + 1)) + 1
           IN  /\ d \in Actors => Finds(actor_definition, at, i, <<d>>) /\ d \notin Capabilities
               /\ d \in Capabilities => /\ Fails(actor_definition, at) /\ d \notin Actors
                                        /\ Finds(capability_definition, at, i, <<d>>)
               /\ d \in Actors \/ d \in Capabilities
<1>1. declared \in Seq(Declarable) /\ text \in Seq(Lexicon) /\ Len(declared) \in Nat
  BY MeantTypes
<1> DEFINE d == declared[k + 1]   i == Len(Lead(declared, k + 1)) + 1
<1>2. Spans(at, i, DeclarationText(d))
  BY <1>1, NextSpans DEF ReadUpTo
<1>3. k < Len(declared) /\ d \in Declarable
  BY <1>1, LeadFacts
<1> HIDE DEF d, i
<1>4. d \in Actors \cup Capabilities
  BY <1>3 DEF Declarable
<1>5. /\ d \in Actors => Finds(actor_definition, at, i, <<d>>)
      /\ d \in Capabilities => Fails(actor_definition, at) /\ Finds(capability_definition, at, i, <<d>>)
  BY <1>1, <1>2, <1>4, TurnFinds
<1>6. d \in Actors => d \notin Capabilities
  BY DeclarationTextType
<1> QED
  BY <1>4, <1>5, <1>6 DEF d, i

\* A match is the only one.
LEMMA FoundMatch ==
    ASSUME NEW r, NEW i, NEW k, NEW b, Finds(r, i, k, b), NEW m \in r[i]
    PROVE  m.to = k /\ m.built = b
<1>1. m = Match(k, b)
  BY DEF Finds
<1> QED
  BY <1>1 DEF Match

LEMMA ParseActorMeant == MeantInv /\ ParseActor => MeantInv'
<1> SUFFICES ASSUME MeantInv, ParseActor PROVE MeantInv'
  OBVIOUS
<1>1. Inv /\ Inv' /\ AsWritten
  BY ParseActorInv DEF MeantInv
<1>2. /\ declared \in Seq(Declarable) /\ Len(declared) \in Nat /\ text \in Seq(Lexicon) /\ at \in Positions
      /\ actors \in Seq(Actors) /\ capabilities \in Seq(Capabilities)
      /\ declared' = declared /\ text' = text /\ intact' = intact
      /\ pc = "parsing" /\ pc' = "parsing" /\ capabilities' = capabilities
  BY <1>1, MeantTypes DEF ParseActor, writing
<1>3. PICK m \in actor_definition[at] : at' = m.to /\ actors' = actors \o m.built
  BY DEF ParseActor
<1>4. m.to \in Positions /\ at < m.to
  BY <1>2, TurnAhead
<1>5. PICK e \in Actors : m.built = <<e>>
  BY <1>2, TurnReads
<1>6. ASSUME NEW n \in 0..Len(declared), IsPrefix(Lead(declared, n), text) PROVE Followed(n)'
  <2>1. Followed(n)
    BY <1>6 DEF MeantInv
  <2>2. /\ n \in Nat /\ Lead(declared, n) \in Seq(Lexicon) /\ Len(Lead(declared, n)) \in Nat
        /\ Kept(declared, n, Actors) \in Seq(Actors) /\ Kept(declared, n, Capabilities) \in Seq(Capabilities)
    BY <1>2, LeadTypes
  <2>3. <<e>> \in Seq(Actors) /\ actors' = Join(actors, <<e>>)
    BY <1>3, <1>5 DEF Join
  <2>4. at \in Nat /\ at' \in Nat /\ at < at'
    BY <1>2, <1>3, <1>4, TextFacts
  <2>5. CASE ReadBeyond(n)
    <3>1. IsPrefix(Kept(declared, n, Actors), actors')
      BY <1>2, <2>2, <2>3, <2>5, PrefixFacts DEF ReadBeyond
    <3>2. Len(Lead(declared, n)) + 1 < at'
      BY <2>2, <2>4, <2>5 DEF ReadBeyond
    <3> QED
      BY <1>2, <2>5, <3>1, <3>2 DEF ReadBeyond, Followed
  <2>6. CASE ReadUpTo(n)
    <3>1. IsPrefix(Kept(declared, n, Actors), actors')
      BY <1>2, <2>2, <2>3, <2>6, PrefixFacts DEF ReadUpTo
    <3>2. Len(Lead(declared, n)) + 1 < at'
      BY <2>2, <2>4, <2>6 DEF ReadUpTo
    <3>3. IsPrefix(Kept(declared, n, Capabilities), capabilities)
      BY <2>2, <2>6, PrefixFacts DEF ReadUpTo
    <3> QED
      BY <1>2, <3>1, <3>2, <3>3 DEF ReadBeyond, Followed
  <2>7. ASSUME NEW k \in 0..n, ReadUpTo(k), k # n PROVE Followed(n)'
    <3>1. k \in Nat /\ k < n /\ k + 1 \in 0..n /\ k < Len(declared)
      BY <1>2, <2>2, <2>7
    <3> DEFINE d == declared[k + 1]   i == Len(Lead(declared, k + 1)) + 1
    <3>2. /\ d \in Actors => Finds(actor_definition, at, i, <<d>>) /\ d \notin Capabilities
          /\ d \in Capabilities => Fails(actor_definition, at)
          /\ d \in Actors \/ d \in Capabilities
      BY <1>1, <1>6, <2>7, <3>1, NextTurn
    <3>3. ~Fails(actor_definition, at)
      BY <1>3 DEF Fails
    <3>4. d \in Actors /\ d \notin Capabilities
      BY <3>2, <3>3
    <3>5. /\ Kept(declared, k + 1, Actors) = Join(Kept(declared, k, Actors), <<d>>)
          /\ Kept(declared, k + 1, Capabilities) = Kept(declared, k, Capabilities)
      BY <1>2, <3>1, <3>4, KeptFacts
    <3> HIDE DEF d, i
    <3>6. at' = i /\ m.built = <<d>>
      BY <1>3, <3>2, <3>4, FoundMatch
    <3>7. actors' = Join(actors, <<d>>)
      BY <1>3, <3>6 DEF Join
    <3>8. ReadUpTo(k + 1)'
      BY <1>2, <2>7, <3>5, <3>6, <3>7 DEF ReadUpTo, i
    <3> QED
      BY <1>2, <3>1, <3>8 DEF Followed
  <2> QED
    BY <2>1, <2>5, <2>6, <2>7 DEF Followed
<1>7. AsWritten'
  BY <1>2 DEF AsWritten
<1> QED
  BY <1>1, <1>2, <1>6, <1>7 DEF MeantInv

LEMMA ParseCapabilityMeant == MeantInv /\ ParseCapability => MeantInv'
<1> SUFFICES ASSUME MeantInv, ParseCapability PROVE MeantInv'
  OBVIOUS
<1>1. Inv /\ Inv' /\ AsWritten
  BY ParseCapabilityInv DEF MeantInv
<1>2. /\ declared \in Seq(Declarable) /\ Len(declared) \in Nat /\ text \in Seq(Lexicon) /\ at \in Positions
      /\ actors \in Seq(Actors) /\ capabilities \in Seq(Capabilities)
      /\ declared' = declared /\ text' = text /\ intact' = intact
      /\ pc = "parsing" /\ pc' = "parsing" /\ actors' = actors /\ actor_definition[at] = {}
  BY <1>1, MeantTypes DEF ParseCapability, writing
<1>3. PICK m \in capability_definition[at] : at' = m.to /\ capabilities' = capabilities \o m.built
  BY DEF ParseCapability
<1>4. m.to \in Positions /\ at < m.to
  BY <1>2, TurnAhead
<1>5. PICK e \in Capabilities : m.built = <<e>>
  BY <1>2, TurnReads
<1>6. ASSUME NEW n \in 0..Len(declared), IsPrefix(Lead(declared, n), text) PROVE Followed(n)'
  <2>1. Followed(n)
    BY <1>6 DEF MeantInv
  <2>2. /\ n \in Nat /\ Lead(declared, n) \in Seq(Lexicon) /\ Len(Lead(declared, n)) \in Nat
        /\ Kept(declared, n, Actors) \in Seq(Actors) /\ Kept(declared, n, Capabilities) \in Seq(Capabilities)
    BY <1>2, LeadTypes
  <2>3. <<e>> \in Seq(Capabilities) /\ capabilities' = Join(capabilities, <<e>>)
    BY <1>3, <1>5 DEF Join
  <2>4. at \in Nat /\ at' \in Nat /\ at < at'
    BY <1>2, <1>3, <1>4, TextFacts
  <2>5. CASE ReadBeyond(n)
    <3>1. IsPrefix(Kept(declared, n, Capabilities), capabilities')
      BY <1>2, <2>2, <2>3, <2>5, PrefixFacts DEF ReadBeyond
    <3>2. Len(Lead(declared, n)) + 1 < at'
      BY <2>2, <2>4, <2>5 DEF ReadBeyond
    <3> QED
      BY <1>2, <2>5, <3>1, <3>2 DEF ReadBeyond, Followed
  <2>6. CASE ReadUpTo(n)
    <3>1. IsPrefix(Kept(declared, n, Capabilities), capabilities')
      BY <1>2, <2>2, <2>3, <2>6, PrefixFacts DEF ReadUpTo
    <3>2. Len(Lead(declared, n)) + 1 < at'
      BY <2>2, <2>4, <2>6 DEF ReadUpTo
    <3>3. IsPrefix(Kept(declared, n, Actors), actors)
      BY <2>2, <2>6, PrefixFacts DEF ReadUpTo
    <3> QED
      BY <1>2, <3>1, <3>2, <3>3 DEF ReadBeyond, Followed
  <2>7. ASSUME NEW k \in 0..n, ReadUpTo(k), k # n PROVE Followed(n)'
    <3>1. k \in Nat /\ k < n /\ k + 1 \in 0..n /\ k < Len(declared)
      BY <1>2, <2>2, <2>7
    <3> DEFINE d == declared[k + 1]   i == Len(Lead(declared, k + 1)) + 1
    <3>2. /\ d \in Actors => Finds(actor_definition, at, i, <<d>>)
          /\ d \in Capabilities => Finds(capability_definition, at, i, <<d>>) /\ d \notin Actors
          /\ d \in Actors \/ d \in Capabilities
      BY <1>1, <1>6, <2>7, <3>1, NextTurn
    <3>3. ~Finds(actor_definition, at, i, <<d>>)
      BY <1>2 DEF Finds
    <3>4. d \in Capabilities /\ d \notin Actors
      BY <3>2, <3>3
    <3>5. /\ Kept(declared, k + 1, Capabilities) = Join(Kept(declared, k, Capabilities), <<d>>)
          /\ Kept(declared, k + 1, Actors) = Kept(declared, k, Actors)
      BY <1>2, <3>1, <3>4, KeptFacts
    <3> HIDE DEF d, i
    <3>6. at' = i /\ m.built = <<d>>
      BY <1>3, <3>2, <3>4, FoundMatch
    <3>7. capabilities' = Join(capabilities, <<d>>)
      BY <1>3, <3>6 DEF Join
    <3>8. ReadUpTo(k + 1)'
      BY <1>2, <2>7, <3>5, <3>6, <3>7 DEF ReadUpTo, i
    <3> QED
      BY <1>2, <3>1, <3>8 DEF Followed
  <2> QED
    BY <2>1, <2>5, <2>6, <2>7 DEF Followed
<1>7. AsWritten'
  BY <1>2 DEF AsWritten
<1> QED
  BY <1>1, <1>2, <1>6, <1>7 DEF MeantInv

LEMMA EndListMeant == MeantInv /\ EndList => MeantInv'
<1> SUFFICES ASSUME MeantInv, EndList PROVE MeantInv'
  OBVIOUS
<1>1. Inv /\ Inv'
  <2>1. [Next]_vars
    BY DEF Next
  <2> QED
    BY <2>1, NextInv DEF MeantInv
<1>2. /\ declared \in Seq(Declarable) /\ Len(declared) \in Nat /\ at \in Positions
      /\ declared' = declared /\ text' = text /\ intact' = intact /\ at' = at
      /\ pc' = "parsed" /\ actors' = actors /\ capabilities' = capabilities
  BY <1>1, MeantTypes DEF EndList, writing, reading
<1>3. actor_definition[at] = {} /\ capability_definition[at] = {}
  BY <1>2, Alternative DEF EndList
<1>4. ASSUME NEW n \in 0..Len(declared), IsPrefix(Lead(declared, n), text) PROVE Followed(n)'
  <2>1. Followed(n)
    BY <1>4 DEF MeantInv
  <2>2. ASSUME NEW k \in 0..n, ReadUpTo(k) PROVE k = n
    <3> SUFFICES ASSUME k # n PROVE FALSE
      OBVIOUS
    <3>1. k \in Nat /\ k < n
      BY <1>2, <2>2
    <3> DEFINE d == declared[k + 1]   i == Len(Lead(declared, k + 1)) + 1
    <3>2. \/ Finds(actor_definition, at, i, <<d>>)
          \/ Finds(capability_definition, at, i, <<d>>)
      BY <1>1, <1>4, <2>2, <3>1, NextTurn
    <3> QED
      BY <1>3, <3>2 DEF Finds
  <2>3. CASE ReadBeyond(n)
    BY <1>2, <2>3 DEF ReadBeyond, Followed
  <2>4. ASSUME NEW k \in 0..n, ReadUpTo(k) PROVE Followed(n)'
    <3>1. k = n
      BY <2>2, <2>4
    <3>2. ReadUpTo(k)'
      BY <1>2, <2>4 DEF ReadUpTo
    <3> QED
      BY <3>1, <3>2 DEF Followed
  <2> QED
    BY <2>1, <2>3, <2>4 DEF Followed
<1>5. AsWritten'
  BY <1>2 DEF AsWritten
<1> QED
  BY <1>1, <1>2, <1>4, <1>5 DEF MeantInv

\* MeantInv is inductive.
LEMMA NextMeant == MeantInv /\ [Next]_vars => MeantInv'
<1> SUFFICES ASSUME MeantInv, [Next]_vars PROVE MeantInv'
  OBVIOUS
<1>1. CASE Declare
  BY <1>1, DeclareMeant
<1>2. CASE Damage
  BY <1>2, DamageMeant
<1>3. CASE Parse \/ UNCHANGED vars
  <2>1. Inv'
    BY NextInv DEF MeantInv
  <2>2. UNCHANGED <<declared, text, intact, at, actors, capabilities>>
    BY <1>3 DEF Parse, vars, writing, reading
  <2>3. AsWritten'
    BY <1>3, <2>2 DEF MeantInv, AsWritten, Parse, vars
  <2>4. ASSUME NEW n \in 0..Len(declared), Followed(n) PROVE Followed(n)'
    <3>1. pc' = "parsed" => pc = "parsed"
      BY <1>3 DEF Parse, vars
    <3>2. (\A k \in 0..n : ReadUpTo(k) => ReadUpTo(k)') /\ (ReadBeyond(n) => ReadBeyond(n)')
      BY <2>2 DEF ReadUpTo, ReadBeyond
    <3> QED
      BY <2>4, <3>1, <3>2 DEF Followed
  <2> QED
    BY <2>1, <2>2, <2>3, <2>4 DEF MeantInv
<1>4. CASE ParseActor
  BY <1>4, ParseActorMeant
<1>5. CASE ParseCapability
  BY <1>5, ParseCapabilityMeant
<1>6. CASE EndList
  BY <1>6, EndListMeant
<1> QED
  BY <1>1, <1>2, <1>3, <1>4, <1>5, <1>6 DEF Next

(***************************************************************************)
(* A text is read as it was meant, whatever names, members, numbers and    *)
(* keywords it uses, however deep its expressions and however many its     *)
(* declarations (fabl_grammar.hh:268): where the grammar tries another     *)
(* alternative first, that one does not match.  Damage spares the          *)
(* declarations before it.                                                 *)
(***************************************************************************)
THEOREM ReadingCorrect == Spec => []ReadsWhatWasMeant
<1>1. MeantInv => ReadsWhatWasMeant
  <2> SUFFICES ASSUME MeantInv, pc = "parsed"
               PROVE  LET meant == SubSeq(declared, 1, intact)
                      IN  /\ IsPrefix(Only(meant, Actors), actors)
                          /\ IsPrefix(Only(meant, Capabilities), capabilities)
                          /\ text = Lexemes(declared, DeclarationText) =>
                                /\ at = Len(text) + 1
                                /\ Len(actors) + Len(capabilities) = Len(declared)
    BY DEF ReadsWhatWasMeant
  <2>1. /\ declared \in Seq(Declarable) /\ Len(declared) \in Nat /\ intact \in 0..Len(declared)
        /\ text \in Seq(Lexicon) /\ at \in Positions
    BY MeantTypes DEF MeantInv
  <2>2. \A n \in 0..Len(declared) : IsPrefix(Lead(declared, n), text) => ReadUpTo(n) \/ ReadBeyond(n)
    BY DEF MeantInv, Followed
  <2>3. IsPrefix(Kept(declared, intact, Actors), actors) /\ IsPrefix(Kept(declared, intact, Capabilities), capabilities)
    <3>1. ReadUpTo(intact) \/ ReadBeyond(intact)
      BY <2>1, <2>2 DEF MeantInv
    <3>2. /\ Kept(declared, intact, Actors) \in Seq(Actors)
          /\ Kept(declared, intact, Capabilities) \in Seq(Capabilities)
      BY <2>1, KeptFacts
    <3> QED
      BY <3>1, <3>2, PrefixFacts DEF ReadUpTo, ReadBeyond
  <2>4. ASSUME text = Lexemes(declared, DeclarationText)
        PROVE  at = Len(text) + 1 /\ Len(actors) + Len(capabilities) = Len(declared)
    <3> DEFINE n == Len(declared)
    <3>1. text = Lead(declared, n) /\ n \in 0..n
      <4>1. Lead(declared, n) = Lexemes(declared, DeclarationText)
        BY <2>1, LeadFacts
      <4> QED
        BY <2>1, <2>4, <4>1
    <3>2. IsPrefix(Lead(declared, n), text)
      BY <2>1, <3>1, PrefixFacts
    <3>3. ~ReadBeyond(n)
      <4>1. Len(text) \in Nat /\ at \in 1..(Len(text) + 1)
        BY <2>1, TextFacts
      <4> QED
        BY <3>1, <4>1 DEF ReadBeyond
    <3>4. ReadUpTo(n)
      BY <2>2, <3>1, <3>2, <3>3
    <3>5. Len(Kept(declared, n, Actors)) + Len(Kept(declared, n, Capabilities)) = n
      BY <2>1, <3>1, KeptLength
    <3> QED
      BY <3>1, <3>4, <3>5 DEF ReadUpTo
  <2> QED
    BY <2>3, <2>4 DEF Kept
<1> QED
  BY <1>1, InitMeant, NextMeant, PTL DEF Spec
=============================================================================
