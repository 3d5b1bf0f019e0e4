----------------------------- MODULE MCWrapper -----------------------------
(* Instances of Wrapper for TLC: which descendants a run may fork.         *)
EXTENDS Wrapper, TLC

Symmetry == Permutations(Pids) \cup Permutations(Streams) \cup Permutations(Waiters)
=============================================================================
