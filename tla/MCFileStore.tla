----------------------------- MODULE MCFileStore -----------------------------
(* FileStore for TLC: no claim is treated unlike another.                  *)
EXTENDS FileStore, TLC

ClaimSymmetry == Permutations(Claims)

=============================================================================
