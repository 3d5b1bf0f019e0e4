----------------------------- MODULE MCInstance -----------------------------
EXTENDS Instance, TLC

Symmetry == Permutations(Runs)
=============================================================================
