------------------------------ MODULE MCPgStore ------------------------------
EXTENDS PgStore, TLC

Symmetry == Permutations(Clients) \cup Permutations(Claims) \cup Permutations(Keys)

MCStrategies == {"ff", "branch", "main"}

=============================================================================
