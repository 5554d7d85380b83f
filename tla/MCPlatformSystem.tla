-------------------------- MODULE MCPlatformSystem --------------------------
(***************************************************************************)
(* Instances of PlatformSystem for TLC.                                    *)
(***************************************************************************)
EXTENDS PlatformSystem

TwoPlatforms == {"sonataflow-platform", "other"}
DefaultPlatform == "sonataflow-platform"
TwoClusterPlatforms == {"cluster", "second"}
PlatformsOrCluster == {{"sonataflow-platform", "other"}, {"sonataflow-platform", "cluster", "second"}}
NoNames == {}
OtherOnly == {"other"}
AllPlatformFaults == PlatformFaults
=============================================================================
