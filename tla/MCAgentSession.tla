--------------------------- MODULE MCAgentSession ---------------------------
EXTENDS AgentSession, TLC

Symmetry == Permutations(Keys) \cup Permutations(Claims)

=============================================================================
