-------------------------- MODULE MCDeployPipeline --------------------------
(* Instances of DeployPipeline for TLC.                                    *)
EXTENDS DeployPipeline, TLC

InPlace     == [zeroDowntime |-> FALSE, host |-> TRUE, volumes |-> FALSE]
ZeroDown    == [zeroDowntime |-> TRUE,  host |-> TRUE, volumes |-> FALSE]
WithVolumes == [zeroDowntime |-> FALSE, host |-> TRUE, volumes |-> TRUE]

OnlyZeroDown == {ZeroDown}
AnySettings  == {InPlace, ZeroDown, WithVolumes}

Symmetry == Permutations(Deployments)
=============================================================================
