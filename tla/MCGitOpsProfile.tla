--------------------------- MODULE MCGitOpsProfile ---------------------------
(***************************************************************************)
(* Instances of GitOpsProfile for TLC.                                     *)
(***************************************************************************)
EXTENDS GitOpsProfile

TwoEvents == 1..2

\* One event of the own and one of another namespace; the same the other way
\* round; both from elsewhere.
ThreeSources ==
  {<<"own", "other">>, <<"other", "own">>, <<"other", "other">>}

\* What PreviewProfile leaves behind at its various stages.
PreviewStatuses ==
  {NilConds} \cup
  {[t \in {"Running", "Built"} |-> IF t = "Running" THEN r ELSE b] :
     <<r, b>> \in {<<Cond("False", "WaitingForBuild"), Cond("False", "BuildIsRunning")>>,
                   <<Cond("False", "BuildFailed"), Cond("False", "BuildFailed")>>,
                   <<Cond("True", ""), Cond("True", "")>>}}

AllGitOpsFaults == GitOpsFaults
Deletion == {"delete"}
=============================================================================
