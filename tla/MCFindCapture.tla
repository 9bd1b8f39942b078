--------------------------- MODULE MCFindCapture ----------------------------
EXTENDS FindCapture
Permuted == Permutations(Finds)
=============================================================================
