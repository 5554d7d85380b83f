-------------------------- MODULE MCContainerBuild --------------------------
(* ContainerBuild for TLC, with the bounds of a .cfg file. *)
EXTENDS ContainerBuild

\* A builder pod that fails or that somebody else deletes.
PodFaults == {"pod"}
=============================================================================
