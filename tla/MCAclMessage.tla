---------------------------- MODULE MCAclMessage ----------------------------
EXTENDS AclMessage, TLC

\* Agents are interchangeable: no property or action names one of them.
AgentSymmetry == Permutations(Agents)
=============================================================================
