--------------------------- MODULE OpenShiftBuild ---------------------------
(***************************************************************************)
(* A SonataFlowBuild on OpenShift: the build controller with the OpenShift *)
(* builder manager, which pushes the workflow definition to a BuildConfig  *)
(* and follows the OpenShift Build this starts.  The controller's part is  *)
(* the one PreviewProfile has for the container builder.                   *)
(*                                                                         *)
(* The OpenShift Builds are pushed to the server and read from a cache     *)
(* that may be behind: one that was just pushed may not be found in it.    *)
(* Nothing wakes the controller when they change.  The workflow is its     *)
(* version; the BuildConfig's data are left out.                           *)
(***************************************************************************)
EXTENDS Naturals, Sequences, FiniteSets

CONSTANTS
  MaxVersion,   \* the last version of the workflow (bound)
  MaxBuilds,    \* how many OpenShift builds there are at most (bound)
  MaxEvents,    \* how many edits, restarts and faults there are in all (bound)
  FaultKinds    \* the kinds of faults, out of BuildFaults

\* A request that reads an old copy counts as a fault.
BuildFaults == {"api", "answer", "crash", "stale", "cancel", "delete"}

ASSUME OpenShiftAssumption ==
  /\ MaxVersion \in Nat \ {0} /\ MaxBuilds \in Nat \ {0} /\ MaxEvents \in Nat
  /\ FaultKinds \subseteq BuildFaults

VARIABLES
  build,      \* the SonataFlowBuild on the API server
  seen,       \* the SonataFlowBuild in the informer cache
  fresh,      \* the cached copy has the server's resource version
  request,    \* the request of the build controller
  queued,     \* the build is in the work queue
  version,    \* the version of the workflow in the informer cache
  wanted,     \* the version when the build was last asked for
  openshift,  \* the OpenShift builds, in the order they were started
  listed,     \* their states in the informer cache, "gone" when it has none
  ended,      \* history: the results of the OpenShift builds that the cache
              \* saw end since the build last began
  orphans,    \* history: the OpenShift builds no status write recorded
  overlooked, \* history: the OpenShift builds that were going on when the
              \* controller did not find them in the cache
  overtaken,  \* history: since it began the build follows an OpenShift
              \* build that was started before
  events      \* how many edits, restarts and faults there were

serverVars == <<build, seen, fresh, queued>>
workflowVars == <<version, wanted>>
openshiftVars == <<openshift, listed>>
historyVars == <<ended, orphans, overlooked, overtaken>>
buildVars == <<serverVars, request, workflowVars, openshiftVars, historyVars, events>>

-----------------------------------------------------------------------------
(* The objects.                                                            *)

Versions == 1..MaxVersion

BuildPhases == {"None", "Initialization", "Scheduling", "Pending", "Running", "Succeeded",
                "Failed", "Error", "Interrupted"}

\* SonataFlowBuild: .status.buildPhase, the restart annotation and the
\* OpenShift build .status.innerBuild refers to, 0 when there is none.
Build == [phase : BuildPhases, restart : BOOLEAN, inner : 0..MaxBuilds]

ActiveStates == {"New", "Pending", "Running"}

EndedStates == {"Complete", "Failed", "Error", "Cancelled"}

OpenShiftStates == ActiveStates \cup EndedStates \cup {"gone"}

OpenShiftBuild == [state : OpenShiftStates, version : Versions]

Started == DOMAIN openshift

Active == {i \in Started : openshift[i].state \in ActiveStates}

\* The result of an OpenShift build that has ended.
ResultOf(i) ==
  <<IF openshift[i].state = "Complete" THEN "succeeded" ELSE "failed", openshift[i].version>>

\* fetchOpenShiftBuildRef: the build is read from the cache, and one that is
\* not found there has the empty phase.
StateOf(i) == IF i \in Started THEN listed[i] ELSE "gone"

RequestSteps == {"idle", "schedule", "scheduleStatus", "annotation", "push", "reconcile",
                 "reconcileStatus"}

\* The copy of the build that a request works on, whether it still is the
\* server's, and the state of the OpenShift build it found.
BuildRequest ==
  [pc : RequestSteps, build : Build, fresh : BOOLEAN, found : OpenShiftStates]

NewBuild == [phase |-> "None", restart |-> FALSE, inner |-> 0]

IdleRequest == [pc |-> "idle", build |-> NewBuild, fresh |-> FALSE, found |-> "gone"]

\* Seeded fault: the phase takes the name OpenShift has for it.
openshiftBuildPhaseMatrix_Named ==
  [s \in OpenShiftStates |-> IF s = "New" THEN "Scheduling" ELSE s]

\* openshiftBuildPhaseMatrix; a state it does not list is the empty phase.
openshiftBuildPhaseMatrix ==
  [s \in OpenShiftStates |->
     CASE s = "New"       -> "Scheduling"
       [] s = "Pending"   -> "Pending"
       [] s = "Running"   -> "Running"
       [] s = "Complete"  -> "Succeeded"
       [] s = "Failed"    -> "Failed"
       [] s = "Error"     -> "Error"
       [] s = "Cancelled" -> "Interrupted"
       [] OTHER           -> "None"]

\* An edit, a restart or a fault.
Event == events < MaxEvents /\ events' = events + 1

Fault(kind) == kind \in FaultKinds /\ Event

-----------------------------------------------------------------------------
(* The server and the cache.                                               *)

\* The server stores a new version of the build; the watch is on its way.
\* A request whose copy is not the one written loses its resource version.
Put(new) ==
  /\ build' = new
  /\ fresh' = (fresh /\ new = build)
  /\ UNCHANGED seen

Deliver ==
  /\ ~fresh
  /\ seen' = build /\ fresh' = TRUE /\ queued' = TRUE
  /\ UNCHANGED <<build, request, workflowVars, openshiftVars, historyVars, events>>

\* The cache lists the OpenShift builds there are, with the ends it had missed.
ListBuilds ==
  /\ listed' = [i \in 1..MaxBuilds |-> IF i \in Started THEN openshift[i].state ELSE "gone"]
  /\ ended' = ended \cup
       {ResultOf(i) : i \in {j \in Started : openshift[j].state \in EndedStates
                                           /\ listed[j] # openshift[j].state}}

\* Nobody is woken: the controller watches the BuildConfig and the ImageStream.
DeliverBuilds ==
  /\ \E i \in Started : listed[i] # openshift[i].state
  /\ ListBuilds
  /\ UNCHANGED <<serverVars, request, workflowVars, openshift, orphans, overlooked, overtaken,
                 events>>

\* Seeded fault: the server does not look at the resource version.
CanUpdate_Always(r) == TRUE

\* An update of an object that is not the server's version is refused.
CanUpdate(r) == r.fresh

Return(again) ==
  /\ request' = IdleRequest
  /\ queued' = (queued \/ again)

-----------------------------------------------------------------------------
(* The build controller.                                                   *)

Terminal == {"Succeeded", "Error", "Failed"}

\* The step the cached build calls for: schedule, reconcile or nothing.
NextStep(b) ==
  IF b.phase = "None" \/ b.restart THEN "schedule"
  ELSE IF b.phase = "Initialization" THEN "push"
  ELSE IF b.phase \notin Terminal THEN "reconcile"
  ELSE "idle"

\* The caches have the build and the OpenShift build it refers to as they are.
Current == fresh /\ (seen.inner \in Started => StateOf(seen.inner) = openshift[seen.inner].state)

\* SonataFlowBuildReconciler.Reconcile, with the OpenShift build it fetches
\* to reconcile.  A request before the watches have delivered works on old
\* copies.
Start ==
  /\ request.pc = "idle" /\ queued
  /\ \/ Current /\ UNCHANGED events
     \/ ~Current /\ Fault("stale")
  /\ queued' = FALSE
  /\ LET fetches == NextStep(seen) \in {"push", "reconcile"}
         found == IF fetches THEN StateOf(seen.inner) ELSE "gone"
     IN /\ request' = IF NextStep(seen) = "idle" THEN request
                      ELSE [pc |-> NextStep(seen), build |-> seen, fresh |-> fresh,
                            found |-> found]
        /\ overlooked' = IF fetches /\ found = "gone" THEN overlooked \cup (Active \cap {seen.inner})
                         ELSE overlooked
  /\ UNCHANGED <<build, seen, fresh, workflowVars, openshiftVars, ended, orphans, overtaken>>

\* Seeded fault: a build that is already known keeps its phase.
Schedule_Keeps ==
  /\ request.pc = "schedule"
  /\ request' = [request EXCEPT !.pc = "scheduleStatus",
                                !.build.phase = IF @ = "None" THEN "Initialization" ELSE @]
  /\ UNCHANGED <<serverVars, workflowVars, openshiftVars, historyVars, events>>

\* openshiftBuilderManager.Schedule: the ImageStream and the BuildConfig.
Schedule ==
  /\ request.pc = "schedule"
  /\ request' = [request EXCEPT !.pc = "scheduleStatus", !.build.phase = "Initialization"]
  /\ UNCHANGED <<serverVars, workflowVars, openshiftVars, historyVars, events>>

\* manageStatusUpdate: the build begins.
ScheduleStatus ==
  /\ request.pc = "scheduleStatus" /\ CanUpdate(request)
  /\ Put([build EXCEPT !.phase = request.build.phase, !.inner = request.build.inner])
  /\ IF request.build.restart
     THEN request' = [request EXCEPT !.pc = "annotation"] /\ UNCHANGED queued
     ELSE Return(TRUE)
  /\ ended' = {} /\ overtaken' = FALSE
  /\ UNCHANGED <<workflowVars, openshiftVars, orphans, overlooked, events>>

\* The restart annotation is removed; with the signal to the workflow, which
\* is left out, the request ends.
Annotation ==
  /\ request.pc = "annotation" /\ CanUpdate(request)
  /\ Put([build EXCEPT !.restart = FALSE])
  /\ Return(TRUE)
  /\ UNCHANGED <<workflowVars, openshiftVars, historyVars, events>>

\* Seeded fault: a build that has not changed is not looked at again.
Reconciled_Once(b) ==
  IF b = request.build THEN Return(FALSE)
  ELSE request' = [request EXCEPT !.pc = "reconcileStatus", !.build = b] /\ UNCHANGED queued

\* The end of Reconcile: the status is updated, changed or not (the comparison
\* with the one before is of a value with a pointer).
Reconciled(b) ==
  request' = [request EXCEPT !.pc = "reconcileStatus", !.build = b] /\ UNCHANGED queued

\* Seeded fault: no build is found to be going on.
FollowsInner_Never(r) == FALSE

\* The guard to avoid spamming multiple builds.
FollowsInner(r) == r.found \in ActiveStates

\* openshiftBuilderManager.Reconcile of a build in Initialization: the inner
\* build is followed when it is not over, ...
Follow ==
  /\ request.pc = "push" /\ FollowsInner(request)
  /\ Reconciled([request.build EXCEPT !.phase = "Running"])
  /\ overtaken' = TRUE
  /\ UNCHANGED <<build, seen, fresh, workflowVars, openshiftVars, ended, orphans, overlooked,
                 events>>

\* ... or another one of the cached workflow is pushed, whose answer may be lost.
Push ==
  /\ request.pc = "push" /\ ~FollowsInner(request)
  /\ Len(openshift) < MaxBuilds
  /\ openshift' = Append(openshift, [state |-> "New", version |-> version])
  /\ orphans' = orphans \cup {Len(openshift')}
  /\ \/ /\ Reconciled([request.build EXCEPT !.phase = "Scheduling", !.inner = Len(openshift')])
        /\ UNCHANGED events
     \/ Fault("answer") /\ Return(TRUE)
  /\ UNCHANGED <<build, seen, fresh, workflowVars, listed, ended, overlooked, overtaken>>

\* openshiftBuilderManager.Reconcile of a build that is further on.
Reconcile ==
  /\ request.pc = "reconcile"
  /\ Reconciled([request.build EXCEPT !.phase = openshiftBuildPhaseMatrix[request.found],
                                      !.inner = IF request.found = "gone" THEN 0 ELSE @])
  /\ UNCHANGED <<build, seen, fresh, workflowVars, openshiftVars, historyVars, events>>

ReconcileStatus ==
  /\ request.pc = "reconcileStatus" /\ CanUpdate(request)
  /\ Put([build EXCEPT !.phase = request.build.phase, !.inner = request.build.inner])
  /\ Return(TRUE)
  /\ orphans' = orphans \ {request.build.inner}
  /\ UNCHANGED <<workflowVars, openshiftVars, ended, overlooked, overtaken, events>>

\* A conflict or a request the server refuses.
RequestError ==
  /\ \/ /\ request.pc \in {"scheduleStatus", "annotation", "reconcileStatus"}
        /\ ~CanUpdate(request) /\ UNCHANGED events
     \/ request.pc # "idle" /\ Fault("api")
  /\ Return(TRUE)
  /\ UNCHANGED <<build, seen, fresh, workflowVars, openshiftVars, historyVars>>

Controller ==
  \/ Schedule \/ ScheduleStatus \/ Annotation
  \/ Follow \/ Push \/ Reconcile \/ ReconcileStatus \/ RequestError

-----------------------------------------------------------------------------
(* OpenShift, the workflow controller and failures.                        *)

\* Builds of a BuildConfig run one after the other.
BuildRuns ==
  /\ \E i \in Active :
       /\ \A j \in Active : i <= j
       /\ \E next \in {"Pending", "Running"} \ {openshift[i].state} :
            /\ ~(openshift[i].state = "Running")
            /\ openshift' = [openshift EXCEPT ![i].state = next]
  /\ UNCHANGED <<serverVars, request, workflowVars, listed, historyVars, events>>

BuildEnds(i, state) ==
  /\ openshift' = [openshift EXCEPT ![i].state = state]
  /\ UNCHANGED <<serverVars, request, workflowVars, listed, historyVars>>

BuildFinishes ==
  /\ \E i \in Active, state \in {"Complete", "Failed", "Error"} :
       openshift[i].state = "Running" /\ BuildEnds(i, state)
  /\ UNCHANGED events

BuildCancelled ==
  /\ Fault("cancel")
  /\ \E i \in Active : BuildEnds(i, "Cancelled")

\* Builds are deleted by a user or pruned from the history.
BuildGone ==
  /\ Fault("delete")
  /\ \E i \in Started : openshift[i].state # "gone" /\ BuildEnds(i, "gone")

\* The user edits the workflow and the cache sees it.
WorkflowChanges ==
  /\ version < MaxVersion /\ Event
  /\ version' = version + 1
  /\ UNCHANGED <<serverVars, request, wanted, openshiftVars, historyVars>>

\* The build is to be done anew, and somebody writes that to the build.
AskedWith(new) ==
  /\ wanted' = version
  /\ Put(new)
  /\ request' = [request EXCEPT !.fresh = @ /\ new = build]
  /\ UNCHANGED <<version, queued, openshiftVars, historyVars>>

\* The workflow has changed: its controller takes the phase away, and leaves
\* the inner build.
MarkToRestart ==
  /\ wanted < version
  /\ AskedWith([build EXCEPT !.phase = "None"])
  /\ UNCHANGED events

\* The user sets the restart annotation.
UserRestarts ==
  /\ Event
  /\ AskedWith([build EXCEPT !.restart = TRUE])

\* The operator starts again: all caches are listed anew.
Crash ==
  /\ Fault("crash")
  /\ request' = IdleRequest /\ seen' = build /\ fresh' = TRUE /\ queued' = TRUE
  /\ ListBuilds
  /\ UNCHANGED <<build, workflowVars, openshift, orphans, overlooked, overtaken>>

Init ==
  /\ build = NewBuild /\ seen = NewBuild /\ fresh = TRUE /\ queued = TRUE
  /\ request = IdleRequest /\ version = 1 /\ wanted = 1
  /\ openshift = <<>> /\ listed = [i \in 1..MaxBuilds |-> "gone"]
  /\ ended = {} /\ orphans = {} /\ overlooked = {} /\ overtaken = FALSE /\ events = 0

Next ==
  \/ Start \/ Controller \/ Deliver \/ DeliverBuilds
  \/ BuildRuns \/ BuildFinishes \/ BuildCancelled \/ BuildGone
  \/ WorkflowChanges \/ MarkToRestart \/ UserRestarts \/ Crash

Spec == Init /\ [][Next]_buildVars

\* The controller works, watches deliver and OpenShift runs what is pushed.
FairSpec ==
  /\ Spec
  /\ WF_buildVars(Start) /\ WF_buildVars(Controller)
  /\ WF_buildVars(Deliver) /\ WF_buildVars(DeliverBuilds)
  /\ WF_buildVars(BuildRuns) /\ WF_buildVars(BuildFinishes)

-----------------------------------------------------------------------------
(* Properties.                                                             *)

OpenShiftTypeOK ==
  /\ build \in Build /\ seen \in Build /\ fresh \in BOOLEAN /\ queued \in BOOLEAN
  /\ request \in BuildRequest /\ version \in Versions /\ wanted \in Versions
  /\ Len(openshift) <= MaxBuilds /\ \A i \in Started : openshift[i] \in OpenShiftBuild
  /\ listed \in [1..MaxBuilds -> OpenShiftStates]
  /\ ended \subseteq {"succeeded", "failed"} \X Versions
  /\ orphans \subseteq Started /\ overlooked \subseteq Started
  /\ overtaken \in BOOLEAN /\ events \in 0..MaxEvents

\* What is going on is what the status refers to, except for OpenShift
\* builds whose status write is outstanding or never came, and for those the
\* cache had not listed yet when the controller looked for them: the guard
\* against spamming multiple builds keeps every other build from being
\* started twice (openshiftbuilder.go, Reconcile).
OneBuildFollowed == Active \subseteq orphans \cup overlooked \cup {build.inner}

\* A build that has succeeded built the workflow as the operator knew it when
\* it was last asked to, or a later one, unless it followed an OpenShift build
\* started before.
ImageIsCurrent ==
  build.phase = "Succeeded" /\ ~build.restart /\ ~overtaken =>
    openshift[build.inner].version >= wanted

\* A build ends, whatever fails on the way, except that one whose OpenShift
\* build was cancelled stays interrupted.
EventuallyEnds ==
  <>[](~build.restart /\ (build.phase \in Terminal \/ StateOf(build.inner) = "Cancelled"))

\* What this build reports to the workflow.
Reported ==
  IF build.phase = "None" THEN <<"none", 0>>
  ELSE IF build.phase = "Succeeded" THEN <<"succeeded", openshift[build.inner].version>>
  ELSE IF build.phase \in {"Failed", "Error"} THEN <<"failed", openshift[build.inner].version>>
  ELSE <<"running", 0>>

Lifecycle ==
  INSTANCE BuildLifecycle WITH
    asked <- build.restart \/ build.phase = "None", outcome <- Reported, results <- ended

\* The OpenShift builder keeps the promises of BuildLifecycle, where an
\* OpenShift build ends when the cache sees it end.
ImplementsLifecycle == Lifecycle!Spec
=============================================================================
