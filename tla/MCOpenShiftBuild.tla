-------------------------- MODULE MCOpenShiftBuild --------------------------
(***************************************************************************)
(* Instances of OpenShiftBuild for TLC.                                    *)
(***************************************************************************)
EXTENDS OpenShiftBuild

AllBuildFaults == BuildFaults
=============================================================================
