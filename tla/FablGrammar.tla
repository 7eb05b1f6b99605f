---------------------------- MODULE FablGrammar ----------------------------
(***************************************************************************)
(* The grammar of the agent language (fabl_grammar.hh), rule by rule, and  *)
(* what its callbacks make of a lexeme (concrete_ast.hh).                  *)
(***************************************************************************)
EXTENDS Copa

Keywords == {"actor", "can", "has", "capability", "pre", "post"}

match_keyword(keyword) == match_string(<<keyword>>)

----------------------------------------------------------------------------
(***************************************************************************)
(* Expressions: a list of operands and operators in any order.  An         *)
(* operator keeps its precedence, by which the library builds the tree.    *)
(* An expression in parentheses is an operand whose tree is written in     *)
(* line, between the leaves Open and Close.                                *)
(***************************************************************************)
bool_literal_grammar ==
    match_operand(<<"true">>, Leaf("bool", "true")) | match_operand(<<"false">>, Leaf("bool", "false"))

member_accessor_grammar ==
    match_production("accessor",
        match_identifier ++ may(match_string(<<".">>) ++ match_identifier))

strict_member_accessor_grammar ==
    match_production("accessor", match_identifier ++ match_string(<<".">>) ++ match_identifier)

operator_exec ==
    [lexeme \in {"+", "-", "*", "/", "%"} |->
        CASE lexeme = "+" -> "ADD"
          [] lexeme = "-" -> "SUBTRACT"
          [] lexeme = "*" -> "MULTIPLY"
          [] lexeme = "/" -> "DIVIDE"
          [] lexeme = "%" -> "MODULO"]

expression_operand(level, lexeme) == match_operand(<<lexeme>>, Leaf(level, operator_exec[lexeme]))

level_2_grammar == expression_operand("level 2", "*") | expression_operand("level 2", "/")
level_1_grammar == expression_operand("level 1", "+") | expression_operand("level 1", "-")

Open == Leaf("open", "(")
Close == Leaf("close", ")")
operand(r) == [i \in Positions |-> {Match(m.to, <<Open>> \o m.built \o <<Close>>) : m \in r[i]}]

\* The rules of an expression contain those of the expressions in it.
base_grammar(expression) ==
    match_number | bool_literal_grammar | strict_member_accessor_grammar | match_identifier
        | parenthesised(operand(expression))

expression_rules ==
    LET expression[i \in Positions] ==
            (((base_grammar(expression) | level_1_grammar | level_2_grammar) ++ expression)
                | nothing)[i]
    IN  expression

expression_grammar == match_production("expression", expression_rules)

----------------------------------------------------------------------------
(***************************************************************************)
(* Capabilities: preconditions compare a member with a number, outcomes    *)
(* assign an expression to a member.                                       *)
(***************************************************************************)
compare_operator ==
    [lexemes \in {<<"=", "=">>, <<"!", "=">>, <<">">>, <<">", "=">>, <<"<">>, <<"<", "=">>} |->
        CASE lexemes = <<"=", "=">> -> "EQUAL"
          [] lexemes = <<"!", "=">> -> "DIFFERENT"
          [] lexemes = <<">">>      -> "GREATER"
          [] lexemes = <<">", "=">> -> "GREATER_EQUAL"
          [] lexemes = <<"<">>      -> "LESS"
          [] lexemes = <<"<", "=">> -> "LESS_EQUAL"]

condition_operand(lexemes) == match_operand(lexemes, Leaf("operator", compare_operator[lexemes]))

\* Mutation: the shorter operator is tried first.
shorter_first ==
    condition_operand(<<">">>) | condition_operand(<<">", "=">>) | condition_operand(<<"<">>)
        | condition_operand(<<"<", "=">>) | condition_operand(<<"=", "=">>) | condition_operand(<<"!", "=">>)
condition_grammar ==
    condition_operand(<<">", "=">>) | condition_operand(<<">">>) | condition_operand(<<"<", "=">>)
        | condition_operand(<<"<">>) | condition_operand(<<"=", "=">>) | condition_operand(<<"!", "=">>)

precondition_statement ==
    match_production("precondition",
        member_accessor_grammar ++ condition_grammar ++ match_number ++ semicol)

capability_pre_statement ==
    match_production("pre", match_keyword("pre") ++ bracketed(list(precondition_statement)))

assignment_statement ==
    match_production("assignment",
        member_accessor_grammar ++ match_string(<<"=">>) ++ expression_grammar ++ semicol)

capability_post_statement ==
    match_production("post", match_keyword("post") ++ bracketed(list(assignment_statement)))

capability_definition ==
    match_production("capability",
        match_keyword("capability") ++ match_identifier
            ++ bracketed(capability_pre_statement ++ capability_post_statement) ++ semicol)

----------------------------------------------------------------------------
(***************************************************************************)
(* Actors.  Nothing keeps a keyword from being a name.                     *)
(***************************************************************************)
\* Mutation: the name comes before the quantity.
has_name_first ==
    match_production("has", match_keyword("has") ++ match_identifier ++ match_number ++ semicol)
actor_has_statement ==
    match_production("has", match_keyword("has") ++ match_number ++ match_identifier ++ semicol)

\* Mutation: the statement has no end.
unended_capability_identifier == match_production("capability_identifier", match_identifier)
match_capability_identifier ==
    match_production("capability_identifier", match_identifier ++ semicol)

actor_can_statement ==
    match_keyword("can") ++ (capability_definition | match_capability_identifier)

actor_definition ==
    match_production("actor",
        match_keyword("actor") ++ match_identifier
            ++ bracketed(match_production("content", list(actor_has_statement | actor_can_statement)))
            ++ semicol)
=============================================================================
