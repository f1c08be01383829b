-------------------------- MODULE MCActionLearning --------------------------
EXTENDS ActionLearning, TLC

MCHash == [a \in Agents |-> 1]

Symmetry == Permutations(Sides)

=============================================================================
