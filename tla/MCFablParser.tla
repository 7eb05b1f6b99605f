---------------------------- MODULE MCFablParser ----------------------------
(***************************************************************************)
(* Declarations for FablParser: each kind of statement, each operator and  *)
(* each kind of operand, with names that are keywords.                     *)
(***************************************************************************)
EXTENDS FablParser

SomeWords == Keywords \cup {"a", "true", "false"}
Quantities == {"1"}

Identifier(w) == Leaf("identifier", w)
Number == Leaf("number", "1")
Actor(w) == Node("accessor", <<Identifier(w)>>)
Member(w, m) == Node("accessor", <<Identifier(w), Identifier(m)>>)
Expression(parts) == Node("expression", parts)

SomeOperands == {Number, Leaf("bool", "true"), Identifier("a"), Member("a", "post")}
SomeOperators == {Leaf("level 1", "ADD"), Leaf("level 1", "SUBTRACT"),
              Leaf("level 2", "MULTIPLY"), Leaf("level 2", "DIVIDE")}
Single == {Expression(s) : s \in BoundedSeq(SomeOperands, 1)}
Flat == Single \cup {Expression(<<x, op, y>>) : x, y \in SomeOperands, op \in SomeOperators}
Nested == {Expression(<<Identifier("has"), op, Open>> \o s \o <<Close>>) :
                op \in SomeOperators, s \in BoundedSeq(SomeOperands, 1)}

Assigned(w, e) == Node("assignment", <<w, e>>)
Compared(w, op) == Node("precondition", <<w, Leaf("operator", op), Number>>)
SomeComparisons == {"EQUAL", "DIFFERENT", "GREATER", "GREATER_EQUAL", "LESS", "LESS_EQUAL"}

Capability(name, pre, post) ==
    Node("capability", <<Identifier(name), Node("pre", pre), Node("post", post)>>)

Assigning == {Capability("a", << >>, <<Assigned(Member("a", "has"), e)>>) : e \in Flat \cup Nested}
Comparing == {Capability("capability", <<Compared(w, op)>>, << >>) :
                w \in {Actor("pre"), Member("true", "a")}, op \in SomeComparisons}
Both == Capability("pre", <<Compared(Actor("a"), "LESS_EQUAL"), Compared(Member("a", "a"), "GREATER")>>,
                   <<Assigned(Actor("true"), Expression(<<Number>>)),
                     Assigned(Member("post", "a"), Expression(<< >>))>>)

Declared(name, content) == Node("actor", <<Identifier(name), Node("content", content)>>)

SomeStatements == {Node("has", <<Number, Identifier("can")>>),
               Node("capability_identifier", <<Identifier("a")>>),
               Node("capability_identifier", <<Identifier("capability")>>),
               Capability("capability", << >>, << >>), Both}
Acting == {Declared("actor", s) : s \in BoundedSeq(SomeStatements, 2)}

AnyThenShort ==
    <<Assigning \cup Comparing \cup {Both} \cup Acting,
      {Capability("actor", << >>, << >>), Declared("capability", << >>)}>>
=============================================================================
