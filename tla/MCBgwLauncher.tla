--------------------------- MODULE MCBgwLauncher ----------------------------
EXTENDS BgwLauncher, TLC
Symmetry == Permutations(Worker) \cup Permutations(Job)
=============================================================================
