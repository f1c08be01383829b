-------------------------- MODULE MCTransactionFlush --------------------------
(* Two keys, buffered in either order, one alone, and one key twice.       *)
EXTENDS TransactionFlush, TLC

MCKeys == {1, 2}

\* The second id wins a tie against the first, the third loses it.
MCMinted == <<2, 3, 1>>

MCBuffers == {<<1, 2>>, <<2, 1>>, <<2>>, <<1, 1>>}

AgentSymmetry == Permutations(Agents)

=============================================================================
