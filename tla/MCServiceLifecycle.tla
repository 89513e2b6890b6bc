-------------------------- MODULE MCServiceLifecycle --------------------------
EXTENDS ServiceLifecycle, TLC

Symmetry == Permutations(Strategies) \cup Permutations(Processes)
=============================================================================
