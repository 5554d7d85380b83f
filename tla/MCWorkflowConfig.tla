-------------------------- MODULE MCWorkflowConfig --------------------------
(***************************************************************************)
(* Instances of WorkflowConfig for TLC.                                    *)
(***************************************************************************)
EXTENDS WorkflowConfig

TwoProps == {"empty", "tuned"}
\* One offers a service of its own, the other that of the cluster platform.
TwoPlatforms == {[services |-> s, ref |-> "cluster"] : s \in {"unset", "enabled"}}

AllConfigFaults == ConfigFaults
=============================================================================
