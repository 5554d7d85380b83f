--------------------------- MODULE ContainerBuild ---------------------------
(***************************************************************************)
(* The build of PreviewProfile as a builder: what the builder pods of the  *)
(* container builder did, as history beside the model, and BuildLifecycle, *)
(* which it implements with it.                                            *)
(***************************************************************************)
EXTENDS PreviewProfile

VARIABLES
  ended,      \* history: the results of the builder pods that ended since
              \* the build last began, each with the flow the pod compiled
  contextOf,  \* history: the flow of the build context when the build
              \* controller last wrote the status of the build
  void        \* history: an earlier builder pod was overlooked since the build
              \* last began with that pod gone

containerVars == <<vars, ended, contextOf, void>>

\* The build controller writes the status of the build: when it has scheduled
\* it, with the earlier builder pod deleted or gone ...
BuildScheduled == BkScheduleStatus /\ WriteOk(bk.fresh)

BuildBegins == BuildScheduled /\ ~overlooked

\* ... and when it has reconciled it, ...
BuildMoves == BkReconcileStatus /\ WriteOk(bk.fresh)

\* ... and a builder pod ends.
PodEnds == pod.state = "Running" /\ pod'.state \in {"Succeeded", "Failed"}

PodResult == <<IF pod'.state = "Succeeded" THEN "succeeded" ELSE "failed", pod.bits>>

History ==
  /\ ended' = IF BuildBegins THEN {} ELSE IF PodEnds THEN ended \cup {PodResult} ELSE ended
  /\ contextOf' = IF BuildScheduled \/ BuildMoves THEN ctx ELSE contextOf
  /\ void' = ((void \/ overlooked') /\ ~BuildBegins)

ContainerInit == Init /\ ended = {} /\ contextOf = 0 /\ void = FALSE

ContainerNext == Next /\ History

ContainerSpec == ContainerInit /\ [][ContainerNext]_containerVars

-----------------------------------------------------------------------------
(* The refinement.                                                         *)

\* A build is asked for when it has no phase, or with the restart annotation.
\* A build that overlooked an earlier pod is not counted as begun.
Asked == void \/ build.phase \in {"absent", "None"} \/ build.restart

\* What the build reports to the workflow, and of which flow.
Reported ==
  IF void \/ build.phase \in {"absent", "None"} THEN <<"none", 0>>
  ELSE IF build.phase = "Succeeded" THEN <<"succeeded", contextOf>>
  ELSE IF build.phase = "Failed" THEN <<"failed", contextOf>>
  ELSE <<"running", 0>>

Lifecycle ==
  INSTANCE BuildLifecycle WITH
    Versions <- 1..MaxFlow, asked <- Asked, outcome <- Reported, results <- ended

\* The container builder keeps the promises of BuildLifecycle, on caches that
\* lag behind as well: it reports what became of a builder pod that ran since
\* the build began, on the context the build has, and a report stays until the
\* build is asked for anew.  Nothing is promised of a build that overlooked an
\* earlier builder pod, until it begins anew.
ContainerBuildImplementsLifecycle == Lifecycle!Spec
=============================================================================
