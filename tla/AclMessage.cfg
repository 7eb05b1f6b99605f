SPECIFICATION Spec
CONSTANTS
    Agents = {a1, a2}
    Written = {1, 2}
SYMMETRY AgentSymmetry
INVARIANTS ReadsOneMessage ReadsItsConversation
PROPERTY KeepsConversationOnFailure
