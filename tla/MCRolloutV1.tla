----------------------------- MODULE MCRolloutV1 -----------------------------
(* Instances of RolloutV1 for TLC. *)
EXTENDS RolloutV1

CONSTANT r1

\* Cluster 1 in the first stage, the other one in the second.
TwoStages == [c \in 1..ClusterCount |-> IF c = 1 THEN 1 ELSE 2]

From(on, bound, kinds) == [auto |-> on, bound |-> bound, budget |-> [left |-> 1, kinds |-> kinds]]

\* Without auto-rollout a run meets every surprise, with it the faults that both
\* controllers meet; where the first cluster is not bound yet, it may become a target.
MCStarts == {From(FALSE, {1, 2}, Kinds \ {"refusal"}),
             From(TRUE, {1, 2}, {"refusal", "failure", "restart"}),
             From(FALSE, {2}, {"targets"})}
=============================================================================
