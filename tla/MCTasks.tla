------------------------------ MODULE MCTasks ------------------------------
EXTENDS Tasks, TLC

Symmetry == Permutations(Threads) \cup Permutations(Workers)
=============================================================================
