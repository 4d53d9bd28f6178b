--------------------------- MODULE MCBgwScheduler ---------------------------
EXTENDS BgwScheduler, TLC
Symmetry == Permutations(Worker)
NoJobs == <<>>
OneJob == <<1>>
TwoJobs == <<1, 2>>
=============================================================================
