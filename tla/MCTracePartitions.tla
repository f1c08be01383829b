------------------------- MODULE MCTracePartitions --------------------------
EXTENDS TracePartitions, TLC

Symmetry == Permutations(Traces) \cup Permutations(Policies) \cup Permutations(Upkeepers)

=============================================================================
