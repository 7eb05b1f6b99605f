SPECIFICATION Spec
CONSTANTS
    Agents = {a1, a2}
    Written = {1, 2}
PROPERTY TransmitsConversation
