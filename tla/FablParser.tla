----------------------------- MODULE FablParser -----------------------------
(***************************************************************************)
(* Reading a text with the grammar `fabl' (fabl_grammar.hh:268): a list of *)
(* actors and capabilities, which go to two vectors.                       *)
(*                                                                         *)
(* The text is written by somebody who declares something, and may then    *)
(* damage it at one lexeme.                                                *)
(***************************************************************************)
EXTENDS FablGrammar, SequencesExt

CONSTANT
    Declarations   \* bound: what may be declared first, second, ... in a text

VARIABLES
    pc,           \* "writing", "parsing" or "parsed"
    declared,     \* the declarations, as they are meant
    intact,       \* the number of declarations that no damage touches
    at,           \* the position that is read next
    actors, capabilities    \* the members of fabl::ast_object

writing == <<declared, text, intact>>
reading == <<at, actors, capabilities>>
vars == <<pc, writing, reading>>

----------------------------------------------------------------------------
(***************************************************************************)
(* The trees of concrete_ast.hh.                                           *)
(***************************************************************************)
Leaves(is, lexemes) == {Leaf(is, lexeme) : lexeme \in lexemes}
Nodes(is, Parts) == [is : {is}, lexeme : {""}, parts : Parts]

Identifiers == Leaves("identifier", Words)
Numbers == Leaves("number", Numerals)

Accessors == Nodes("accessor", {<<w>> : w \in Identifiers} \cup (Identifiers \X Identifiers))

Literals == {"true", "false"}

\* In an expression the literals come before the names, so these begin with another word.
Names == Leaves("identifier", Words \ Literals)
Members == Nodes("accessor", Names \X Identifiers)

Operands == Numbers \cup Leaves("bool", Literals) \cup Names \cup Members
Operators ==
    Leaves("level 1", {"ADD", "SUBTRACT"}) \cup Leaves("level 2", {"MULTIPLY", "DIVIDE"})
Items == Operands \cup Operators \cup {Open, Close}

\* How often x is among the first k items.
Count(x, items, k) == Cardinality({j \in 1..k : items[j] = x})

Balanced(items) ==
    /\ \A k \in DOMAIN items : Count(Close, items, k) <= Count(Open, items, k)
    /\ Count(Close, items, Len(items)) = Count(Open, items, Len(items))

Expressions == Nodes("expression", {items \in Seq(Items) : Balanced(items)})

Comparisons ==
    Leaves("operator", {"EQUAL", "DIFFERENT", "GREATER", "GREATER_EQUAL", "LESS", "LESS_EQUAL"})

Preconditions == Nodes("precondition", Accessors \X Comparisons \X Numbers)
Assignments == Nodes("assignment", Accessors \X Expressions)

Capabilities ==
    Nodes("capability",
        Identifiers \X Nodes("pre", Seq(Preconditions)) \X Nodes("post", Seq(Assignments)))

HasStatements == Nodes("has", Numbers \X Identifiers)
CapabilityIdentifiers == Nodes("capability_identifier", {<<w>> : w \in Identifiers})
Statements == HasStatements \cup Capabilities \cup CapabilityIdentifiers

Actors == Nodes("actor", Identifiers \X Nodes("content", Seq(Statements)))

----------------------------------------------------------------------------
(***************************************************************************)
(* The lexemes of a tree: the language as the tests of the parser write    *)
(* it, stated without the grammar.                                         *)
(***************************************************************************)
Lexemes(nodes, Of(_)) == FlattenSeq([i \in DOMAIN nodes |-> Of(nodes[i])])

AccessorText(a) ==
    IF Len(a.parts) = 1 THEN <<a.parts[1].lexeme>>
    ELSE <<a.parts[1].lexeme, ".", a.parts[2].lexeme>>

Symbols ==
    [ADD |-> <<"+">>, SUBTRACT |-> <<"-">>, MULTIPLY |-> <<"*">>, DIVIDE |-> <<"/">>,
     EQUAL |-> <<"=", "=">>, DIFFERENT |-> <<"!", "=">>, GREATER |-> <<">">>,
     GREATER_EQUAL |-> <<">", "=">>, LESS |-> <<"<">>, LESS_EQUAL |-> <<"<", "=">>]

ItemText(p) ==
    CASE p.is = "accessor" -> AccessorText(p)
      [] p.is \in {"level 1", "level 2"} -> Symbols[p.lexeme]
      [] OTHER -> <<p.lexeme>>

PreconditionText(p) ==
    AccessorText(p.parts[1]) \o Symbols[p.parts[2].lexeme] \o <<p.parts[3].lexeme, ";">>

AssignmentText(a) ==
    AccessorText(a.parts[1]) \o <<"=">> \o Lexemes(a.parts[2].parts, ItemText) \o <<";">>

CapabilityText(c) ==
    <<"capability", c.parts[1].lexeme, "{", "pre", "{">>
        \o Lexemes(c.parts[2].parts, PreconditionText) \o <<"}", "post", "{">>
        \o Lexemes(c.parts[3].parts, AssignmentText) \o <<"}", "}", ";">>

StatementText(s) ==
    CASE s.is = "has" -> <<"has", s.parts[1].lexeme, s.parts[2].lexeme, ";">>
      [] s.is = "capability_identifier" -> <<"can", s.parts[1].lexeme, ";">>
      [] s.is = "capability" -> <<"can">> \o CapabilityText(s)

ActorText(d) ==
    <<"actor", d.parts[1].lexeme, "{">> \o Lexemes(d.parts[2].parts, StatementText) \o <<"}", ";">>

DeclarationText(d) == IF d.is = "capability" THEN CapabilityText(d) ELSE ActorText(d)

\* The lexemes of the language.
Marks == {".", "+", "-", "*", "/", "=", "!", ">", "<", "(", ")", "{", "}", ";"}
Lexicon == Words \cup Numerals \cup Literals \cup Marks

\* The nodes that are in S, in their order.
Only(nodes, S) == FlattenSeq([i \in DOMAIN nodes |-> IF nodes[i] \in S THEN <<nodes[i]>> ELSE << >>])

----------------------------------------------------------------------------
ASSUME KeywordsAreWords == Keywords \subseteq Words
\* A lexeme is a word, a number or a symbol; true and false may be words too.
ASSUME LexemesAssumption ==
    /\ Numerals \cap (Words \cup Literals) = {}
    /\ Marks \cap (Words \cup Numerals) = {}
ASSUME DeclarationsAssumption ==
    /\ DOMAIN Declarations = 1..Len(Declarations)
    /\ \A i \in DOMAIN Declarations : Declarations[i] \subseteq Actors \cup Capabilities

Init ==
    /\ pc = "writing"
    /\ declared = << >> /\ text = << >> /\ intact = 0
    /\ at = 1 /\ actors = << >> /\ capabilities = << >>

Declare ==
    /\ pc = "writing"
    /\ intact = Len(declared)
    /\ Len(declared) < Len(Declarations)
    /\ \E d \in Declarations[Len(declared) + 1] :
          /\ declared' = Append(declared, d)
          /\ text' = text \o DeclarationText(d)
    /\ intact' = intact + 1
    /\ UNCHANGED <<pc, reading>>

\* The declarations whose text ends before lexeme i.
DeclaredBefore(i) ==
    LET ends == {n \in 0..Len(declared) :
                    Len(Lexemes(SubSeq(declared, 1, n), DeclarationText)) < i}
    IN  CHOOSE n \in ends : \A m \in ends : m <= n

\* A lexeme is left out, written twice, or changes place with the next one.
Damage ==
    /\ pc = "writing"
    /\ intact = Len(declared)
    /\ \E i \in DOMAIN text :
          /\ \/ text' = RemoveAt(text, i)
             \/ text' = InsertAt(text, i, text[i])
             \/ i < Len(text) /\ text[i] # text[i + 1] /\ text' =
                   [text EXCEPT ![i] = text[i + 1], ![i + 1] = text[i]]
          /\ intact' = DeclaredBefore(i)
    /\ UNCHANGED <<pc, declared, reading>>

Parse ==
    /\ pc = "writing"
    /\ pc' = "parsing"
    /\ UNCHANGED <<writing, reading>>

----------------------------------------------------------------------------
(***************************************************************************)
(* One turn of the list: an actor, or else a capability, or else its end.  *)
(***************************************************************************)
ParseActor ==
    /\ pc = "parsing"
    /\ \E match \in actor_definition[at] :
          /\ at' = match.to
          /\ actors' = actors \o match.built
    /\ UNCHANGED <<pc, writing, capabilities>>

ParseCapability ==
    /\ pc = "parsing"
    /\ actor_definition[at] = {}
    /\ \E match \in capability_definition[at] :
          /\ at' = match.to
          /\ capabilities' = capabilities \o match.built
    /\ UNCHANGED <<pc, writing, actors>>

EndList ==
    /\ pc = "parsing"
    /\ (actor_definition | capability_definition)[at] = {}
    /\ pc' = "parsed"
    /\ UNCHANGED <<writing, reading>>

Next == Declare \/ Damage \/ Parse \/ ParseActor \/ ParseCapability \/ EndList

Spec == Init /\ [][Next]_vars

----------------------------------------------------------------------------
(***************************************************************************)
(* Type invariant: what is read has the types of concrete_ast.hh.          *)
(***************************************************************************)
TypeOK ==
    /\ pc \in {"writing", "parsing", "parsed"}
    /\ declared \in Seq(Actors \cup Capabilities) /\ intact \in 0..Len(declared)
    /\ text \in Seq(Lexicon) /\ at \in Positions
    /\ actors \in Seq(Actors)
    /\ capabilities \in Seq(Capabilities)

(***************************************************************************)
(* Every text that was written is read as it was meant, whatever the       *)
(* alternatives that the grammar tries first, keywords used as names       *)
(* among them; and damage spares the declarations before it.               *)
(***************************************************************************)
ReadsWhatWasMeant ==
    pc = "parsed" =>
        LET meant == SubSeq(declared, 1, intact)
        IN  /\ IsPrefix(Only(meant, Actors), actors)
            /\ IsPrefix(Only(meant, Capabilities), capabilities)
            /\ text = Lexemes(declared, DeclarationText) =>
                  /\ at = Len(text) + 1
                  /\ Len(actors) + Len(capabilities) = Len(declared)

(***************************************************************************)
(* Whatever the text, the lexemes that a turn of the list consumes are     *)
(* those of the declaration it adds: nothing is skipped, read as something *)
(* else or left half read by an alternative that failed.                   *)
(***************************************************************************)
AddsWhatItConsumes ==
    [][LET consumed == SubSeq(text, at, at' - 1)
       IN  /\ actors' # actors => consumed = DeclarationText(Last(actors'))
           /\ capabilities' # capabilities => consumed = DeclarationText(Last(capabilities'))
           /\ actors' = actors /\ capabilities' = capabilities => at' = at]_vars
=============================================================================
