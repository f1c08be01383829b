------------------------ MODULE MCFileStoreRefinement ------------------------
EXTENDS FileStoreRefinement, TLC

ClaimSymmetry == Permutations(Claims)

=============================================================================
