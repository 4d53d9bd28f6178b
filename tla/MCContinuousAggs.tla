-------------------------- MODULE MCContinuousAggs --------------------------
(* Instances of ContinuousAggs for TLC. *)
EXTENDS ContinuousAggs

CONSTANTS c1, c2, w1, w2

MinInt == -2
Points == {-1, 1, 2, 4}
FewPoints == {-1, 1, 4}
TwoLags == [c \in Cagg |-> IF c = c1 THEN 0 ELSE 2]
TwoIgnores == [c \in Cagg |-> IF c = c1 THEN 4 ELSE 3]

=============================================================================
