------------------------------ MODULE MCStage2 ------------------------------
EXTENDS Stage2, TLC

Symmetry == Permutations(Cpus) \cup Permutations(Realms)

=============================================================================
