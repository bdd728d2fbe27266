-------------------------- MODULE MCNetPlaySession --------------------------
EXTENDS NetPlaySession, TLC
Symmetry == Permutations(Guest)
=============================================================================
