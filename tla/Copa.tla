-------------------------------- MODULE Copa --------------------------------
(***************************************************************************)
(* The parser combinators of fil::copa, which is external, as the grammar  *)
(* of FABL and its tests use them.  A rule is a function from the          *)
(* positions of the text to the set of its matches there, which has one    *)
(* element or, if the rule fails, none.  A match says where it ends and    *)
(* which nodes the callbacks built.  Alternatives are ordered, a list is   *)
(* greedy and may be empty, and a rule that fails leaves nothing behind.   *)
(*                                                                         *)
(* A text is a sequence of lexemes: a word, a number or ONE symbol.        *)
(***************************************************************************)
EXTENDS Naturals, Sequences

CONSTANTS
    Words,     \* the lexemes that match an identifier, keywords included
    Numerals   \* the lexemes that match a number

VARIABLE text  \* the lexemes of the text

Positions == 1..(Len(text) + 1)

\* What a rule builds: a leaf holds a lexeme, any other node its parts.
Leaf(is, lexeme) == [is |-> is, lexeme |-> lexeme, parts |-> << >>]
Node(is, parts) == [is |-> is, lexeme |-> "", parts |-> parts]

Match(to, built) == [to |-> to, built |-> built]

----------------------------------------------------------------------------
\* Rules for lexemes: they build a given leaf, nothing, or a leaf per lexeme.
MatchLexemes(lexemes, built) ==
    [i \in Positions |->
        IF /\ i + Len(lexemes) <= Len(text) + 1
           /\ SubSeq(text, i, i + Len(lexemes) - 1) = lexemes
        THEN {Match(i + Len(lexemes), built)}
        ELSE {}]

match_operand(lexemes, leaf) == MatchLexemes(lexemes, <<leaf>>)
match_string(lexemes) == MatchLexemes(lexemes, << >>)

MatchAny(lexemes, is) ==
    [i \in Positions |->
        IF i <= Len(text) /\ text[i] \in lexemes
        THEN {Match(i + 1, <<Leaf(is, text[i])>>)}
        ELSE {}]

match_identifier == MatchAny(Words, "identifier")
match_number == MatchAny(Numerals, "number")

----------------------------------------------------------------------------
\* One rule and then another, and the first of two that matches.
sequence(r, s) ==
    [i \in Positions |->
        UNION {{Match(n.to, m.built \o n.built) : n \in s[m.to]} : m \in r[i]}]

or_rule(r, s) ==
    [i \in Positions |-> LET first == r[i] IN IF first # {} THEN first ELSE s[i]]

r ++ s == sequence(r, s)
r | s == or_rule(r, s)

nothing == [i \in Positions |-> {Match(i, << >>)}]
may(r) == r | nothing

list(r) == LET L[i \in Positions] == ((r ++ L) | nothing)[i] IN L

bracketed(r) == match_string(<<"{">>) ++ r ++ match_string(<<"}">>)
parenthesised(r) == match_string(<<"(">>) ++ r ++ match_string(<<")">>)
semicol == match_string(<<";">>)

\* The node `is' made of what the rule builds.
match_production(is, r) ==
    [i \in Positions |-> {Match(m.to, <<Node(is, m.built)>>) : m \in r[i]}]
=============================================================================
