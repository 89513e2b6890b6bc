---------------------------- MODULE MCStrategyStore ----------------------------
EXTENDS StrategyStore, TLC

Symmetry == Permutations(Strategies)
=============================================================================
