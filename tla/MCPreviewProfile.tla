-------------------------- MODULE MCPreviewProfile --------------------------
(* PreviewProfile for TLC.  The .cfg files give the bounds and say which   *)
(* of these sets of faults the environment draws from.                     *)
EXTENDS PreviewProfile

NoFaults == {}

\* An operator that stops between two requests to the server, and properties
\* that cannot be written.
LostRequests == {"crash", "props"}

\* Every fault but the one that leaves the build without its properties.
RecoverableFaults == AllFaults \ {"props"}
=============================================================================
