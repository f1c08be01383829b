--------------------------- MODULE MCReplayReceiver ---------------------------
EXTENDS ReplayReceiver, TLC

Symmetry == Permutations(Deliveries) \cup Permutations(Handlers)

=============================================================================
