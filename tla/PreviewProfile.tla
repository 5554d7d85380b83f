--------------------------- MODULE PreviewProfile ---------------------------
(***************************************************************************)
(* One SonataFlow in the preview profile: the operator builds an image of  *)
(* the workflow in the cluster and deploys it.  Two controllers of the     *)
(* same process work on it, each one request at a time and interleaved at  *)
(* every write to the API server:                                          *)
(*   - the workflow reconciler (variable wk), a chain of states tried in   *)
(*     order: newBuilderState, followBuildStatusState,                     *)
(*     deployWithBuildWorkflowState;                                       *)
(*   - the build reconciler (variable bk) over the SonataFlowBuild of the  *)
(*     workflow, which drives the kaniko builder pod.                      *)
(* Both read objects from the informer cache and write them back under     *)
(* optimistic concurrency: a write of a copy whose resource version is no  *)
(* longer the server's is a conflict.  The resource version is kept as one *)
(* bit per copy: whether it still is the server's.  The builder pod is     *)
(* read from the cache as well, while it is created and deleted on the     *)
(* server; nothing is woken by its watch events.                           *)
(*                                                                         *)
(* A flow is a number: 1 is the flow the workflow is created with and each *)
(* edit of .spec.flow adds one.  Its CRC32 is the flow itself, 0 standing  *)
(* for a status that has none.  The builder pod, the registry, the         *)
(* deployment controller and the user are the environment.                 *)
(***************************************************************************)
EXTENDS Conditions, Naturals

CONSTANTS
  MaxFlow,      \* the last flow the user edits the workflow to (bound)
  MaxRestarts,  \* how often the user sets the restart annotation (bound)
  MaxFaults,    \* how many faults the environment injects (bound)
  FaultKinds,   \* which faults it may inject, out of AllFaults
  Lagging,      \* the informer caches that may lag behind the server, out of Caches
  EditAnyTime   \* TRUE: the user edits at any time; FALSE: only once settled

AllFaults == {"api", "props", "crash", "pod", "deployment"}

\* The caches of the SonataFlow, its build, the builder pod and the ConfigMaps.
Caches == {"workflow", "build", "pod", "configs"}

ASSUME BoundsAssumption ==
  /\ MaxFlow \in Nat \ {0}
  /\ MaxRestarts \in Nat
  /\ MaxFaults \in Nat
  /\ FaultKinds \subseteq AllFaults
  /\ Lagging \subseteq Caches
  /\ EditAnyTime \in BOOLEAN

VARIABLES
  wf,           \* the SonataFlow on the API server
  wfCache,      \* the SonataFlow in the informer cache
  wfFresh,      \* the cached SonataFlow has the server's resource version
  build,        \* the SonataFlowBuild on the API server
  buildCache,   \* the SonataFlowBuild in the informer cache
  buildFresh,   \* the cached SonataFlowBuild has the server's version
  wk,           \* the workflow reconciler
  bk,           \* the build reconciler
  queued,       \* the controllers with a request in their work queue
  props,        \* the properties ConfigMaps of the workflow exist
  ctx,          \* the flow in the build context ConfigMap, 0 when none
  pod,          \* the builder pod on the API server
  podCache,     \* the builder pod in the informer cache
  overlooked,   \* history: a builder pod that was not in the cache yet was there
                \* when the earlier builder pod was last taken to be gone
  registry,     \* the flow in the image tagged latest, 0 when none
  deploy,       \* the Deployment of the workflow
  restarts,     \* restart annotations set so far
  faults        \* faults injected so far

wfVars == <<wf, wfCache, wfFresh>>
buildVars == <<build, buildCache, buildFresh>>
podVars == <<pod, podCache, overlooked>>
clusterVars == <<props, ctx, podVars, registry, deploy>>
budgetVars == <<restarts, faults>>
vars == <<wfVars, buildVars, wk, bk, queued, clusterVars, budgetVars>>

-----------------------------------------------------------------------------
(* The objects.                                                            *)

Flows == 0..MaxFlow

Reasons == {"", "WaitingForPlatform", "WaitingForBuild", "WaitingForDeployment", "BuildIsRunning",
            "BuildFailed", "ExternalResourcesNotFound",
            "DeploymentFailure", "DeploymentUnavailable"}

Condition == [status : {"nil", "True", "False", "Unknown"}, reason : Reasons]

ConditionMap == [{"Running", "Built"} -> Condition]

\* SonataFlow: .spec.flow, .status.conditions and .status.flowCRC.
Workflow == [flow : Flows, conds : ConditionMap, crc : Flows]

\* BuildPhase; "absent" stands for an object that does not exist and "None"
\* for the empty phase.
Phases == {"absent", "None", "Initialization", "Scheduling", "Pending",
           "Running", "Succeeded", "Failed", "Interrupted", "Error"}

\* SonataFlowBuild: .status.buildPhase, whether .status.imageTag is set, and
\* the restart annotation.
Build == [phase : Phases, image : BOOLEAN, restart : BOOLEAN]

NilConds == [t \in {"Running", "Built"} |-> NilCond]

NoBuild == [phase |-> "absent", image |-> FALSE, restart |-> FALSE]

NewBuild == [NoBuild EXCEPT !.phase = "None"]

\* The builder pod; bits is the flow it compiles, read when it starts.
Pod == [state : {"none", "Pending", "Running", "Succeeded", "Failed"},
        deleting : BOOLEAN, bits : Flows]

NoPod == [state |-> "none", deleting |-> FALSE, bits |-> 0]

\* The Deployment: what its status conditions report, whether a rollout has
\* been asked for, and whether its pods run the last image pushed.
Deployment == [exists : BOOLEAN, rolling : BOOLEAN, latest : BOOLEAN,
               health : {"progressing", "available", "failed", "unavailable"}]

NoDeployment == [exists |-> FALSE, rolling |-> FALSE, latest |-> FALSE,
                 health |-> "progressing"]

\* A request in the hands of the workflow reconciler: the copy of the
\* workflow it works on and the build it read.
WfSteps == {"idle", "newBuilder", "newBuilderProps", "newBuilderBuild",
            "follow", "rollout", "deploy", "restart", "objects",
            "objectsFailed", "sync", "deployFinish", "finish"}

WorkflowRequest ==
  [pc : WfSteps, flow : Flows, conds : ConditionMap, crc : Flows,
   fresh : BOOLEAN, build : Build, buildFresh : BOOLEAN, requeue : BOOLEAN]

IdleWf == [pc |-> "idle", flow |-> 0, conds |-> NilConds, crc |-> 0,
           fresh |-> FALSE, build |-> NoBuild, buildFresh |-> FALSE,
           requeue |-> FALSE]

BuildSteps == {"idle", "schedule", "initialize", "scheduleStatus", "annotation",
               "signal", "reconcile", "reconcileStatus"}

BuildRequest == [pc : BuildSteps, build : Build, fresh : BOOLEAN]

IdleBuild == [pc |-> "idle", build |-> NoBuild, fresh |-> FALSE]

WfTypeOK == wf \in Workflow /\ wfCache \in Workflow /\ wfFresh \in BOOLEAN

BuildTypeOK == build \in Build /\ buildCache \in Build /\ buildFresh \in BOOLEAN

QueueTypeOK == queued \in SUBSET {"workflow", "build"}

ClusterTypeOK ==
  /\ props \in BOOLEAN
  /\ ctx \in Flows
  /\ pod \in Pod /\ podCache \in Pod /\ overlooked \in BOOLEAN
  /\ registry \in Flows
  /\ deploy \in Deployment

BudgetTypeOK == restarts \in 0..MaxRestarts /\ faults \in 0..MaxFaults

\* Every object, request and counter keeps its type; the status of the
\* workflow only ever holds the conditions and reasons the handlers set.
TypeOK ==
  /\ WfTypeOK
  /\ BuildTypeOK
  /\ wk \in WorkflowRequest
  /\ bk \in BuildRequest
  /\ QueueTypeOK
  /\ ClusterTypeOK
  /\ BudgetTypeOK

\* A workflow nobody has reconciled yet.
NewWorkflow == [flow |-> 1, conds |-> NilConds, crc |-> 0]

Init ==
  /\ wf = NewWorkflow /\ wfCache = NewWorkflow /\ wfFresh = TRUE
  /\ build = NoBuild /\ buildCache = NoBuild /\ buildFresh = TRUE
  /\ wk = IdleWf
  /\ bk = IdleBuild
  /\ queued = {"workflow"}
  /\ props = FALSE
  /\ ctx = 0
  /\ pod = NoPod /\ podCache = NoPod /\ overlooked = FALSE
  /\ registry = 0
  /\ deploy = NoDeployment
  /\ restarts = 0
  /\ faults = 0

-----------------------------------------------------------------------------
(* Reading and writing through the API server.                             *)

\* A watch event of a cache that does not lag is handled before anything
\* else happens.
Watched ==
  /\ "workflow" \in Lagging \/ wfFresh
  /\ "build" \in Lagging \/ buildFresh
  /\ "pod" \in Lagging \/ podCache = pod

Fault(kind) ==
  /\ kind \in FaultKinds
  /\ faults < MaxFaults
  /\ faults' = faults + 1

NoFault == UNCHANGED faults

\* A ConfigMap read from the cache may be an old copy or missing.
ConfigsMayLag == "configs" \in Lagging /\ NoFault

\* A write of a copy with the server's version goes through ...
WriteOk(fresh) == fresh /\ NoFault

\* ... and any other is a conflict; the server may refuse a write as well.
WriteErr(fresh) == (~fresh /\ NoFault) \/ (fresh /\ Fault("api"))

\* The server keeps the version of an object that a write leaves as it was.
PutWf(new) ==
  /\ wf' = new
  /\ wfFresh' = (wfFresh /\ new = wf)
  /\ UNCHANGED wfCache

PutBuild(new) ==
  /\ build' = new
  /\ buildFresh' = (buildFresh /\ new = build)
  /\ UNCHANGED buildCache

\* The builder pod changes on the server.
PutPod(new) == pod' = new /\ UNCHANGED podCache

\* Copies of another controller are out of date after a write.
StaleWk(new) == [wk EXCEPT !.fresh = @ /\ new = wf]

StaleWkBuild(new) == [wk EXCEPT !.buildFresh = @ /\ new = build]

StaleBk(new) == [bk EXCEPT !.fresh = @ /\ new = build]

Enqueue(controllers) == queued' = queued \union controllers

-----------------------------------------------------------------------------
(* The workflow reconciler.                                                *)

\* Seeded fault: a failed build is not taken up again.
NewBuilderCanReconcile_NoRetry(conds) == IsUnknown(conds["Running"])

NewBuilderCanReconcile(conds) ==
  \/ IsUnknown(conds["Running"])
  \/ conds["Built"] = Cond("False", "WaitingForPlatform")
  \/ conds["Built"] = Cond("False", "BuildFailed")

IsWaitingForBuild(conds) == conds["Running"] = Cond("False", "WaitingForBuild")

IsBuildRunning(conds) == conds["Built"] = Cond("False", "BuildIsRunning")

\* Seeded fault: a build that is running is not followed.
FollowCanReconcile_OnlyUnknown(conds) == IsUnknown(conds["Built"])

FollowCanReconcile(conds) ==
  IsUnknown(conds["Built"]) \/ IsBuildRunning(conds) \/ IsWaitingForBuild(conds)

\* Seeded fault: only a workflow that already runs is deployed.
DeployCanReconcile_OnlyReady(conds) == IsTrue(conds["Built"]) /\ IsTrue(conds["Running"])

DeployCanReconcile(conds) == IsTrue(conds["Built"])

\* ReconciliationStateMachine.do: the first state that can reconcile the
\* conditions; "none" is the unknown state condition, an error.
Dispatch(conds) ==
  IF NewBuilderCanReconcile(conds) THEN "newBuilder"
  ELSE IF FollowCanReconcile(conds) THEN "follow"
  ELSE IF DeployCanReconcile(conds) THEN "deploy"
  ELSE "none"

Initialized(conds) == InitializeConditions(conds, "Running", {"Built"})

WfReturn(requeue) ==
  /\ wk' = IdleWf
  /\ IF requeue THEN Enqueue({"workflow"}) ELSE UNCHANGED queued

\* Go on to step pc with the given conditions.
WfGoto(pc, conds) == wk' = [wk EXCEPT !.pc = pc, !.conds = conds]

\* Go on to the handler's last PerformStatusUpdate.
WfFinishWith(conds, requeue) ==
  wk' = [wk EXCEPT !.pc = "finish", !.conds = conds, !.requeue = requeue]

\* Seeded fault: the CRC of the next generation.
StatusOf_NextCRC(request) == [wf EXCEPT !.conds = request.conds, !.crc = request.flow + 1]

\* What PerformStatusUpdate writes: the conditions and the CRC of the flow
\* of the copy it is given.
StatusOf(request) == [wf EXCEPT !.conds = request.conds, !.crc = request.flow]

\* SonataFlowReconciler.Reconcile and Reconciler.Reconcile.  A request that
\* no state accepts fails and is retried as it is, so it never starts.
WfStart ==
  /\ Watched
  /\ wk.pc = "idle"
  /\ "workflow" \in queued
  /\ LET conds == Initialized(wfCache.conds)
     IN /\ Dispatch(conds) # "none"
        /\ wk' = [IdleWf EXCEPT !.pc = Dispatch(conds), !.flow = wfCache.flow,
                                !.conds = conds, !.crc = wfCache.crc,
                                !.fresh = wfFresh]
  /\ queued' = queued \ {"workflow"}
  /\ UNCHANGED <<wfVars, buildVars, bk, clusterVars, budgetVars>>

\* GetActivePlatform fails.  Only newBuilderState tells a missing platform
\* from another error and persists the condition it sets; otherwise the
\* request is tried again.
WfNoPlatform ==
  /\ Watched
  /\ Fault("api")
  /\ \/ /\ wk.pc = "newBuilder"
        /\ WfFinishWith(MarkFalse(wk.conds, "Built", "WaitingForPlatform"), TRUE)
        /\ UNCHANGED queued
     \/ /\ wk.pc \in {"newBuilder", "deploy"}
        /\ WfReturn(TRUE)
  /\ UNCHANGED <<wfVars, buildVars, bk, clusterVars, restarts>>

\* newBuilderState: the first status update, whose error is dropped.
NewBuilderUpdate ==
  /\ Watched
  /\ wk.pc = "newBuilder"
  /\ \/ /\ WriteOk(wk.fresh)
        /\ PutWf(StatusOf(wk))
     \/ /\ WriteErr(wk.fresh)
        /\ UNCHANGED wfVars
  /\ WfGoto("newBuilderProps", wk.conds)
  /\ UNCHANGED <<buildVars, bk, queued, clusterVars, restarts>>

\* newBuilderState: the user and managed properties ConfigMaps.
NewBuilderProps ==
  /\ Watched
  /\ wk.pc = "newBuilderProps"
  /\ \/ /\ props' = TRUE
        /\ NoFault
        /\ WfGoto("newBuilderBuild", wk.conds)
     \/ /\ Fault("props")
        /\ WfFinishWith(MarkFalse(wk.conds, "Running", "ExternalResourcesNotFound"), FALSE)
        /\ UNCHANGED props
  /\ UNCHANGED <<wfVars, buildVars, bk, queued, ctx, podVars, registry, deploy, restarts>>

\* SonataFlowBuildManager.GetOrCreateBuild: got is the cached build, or the
\* new one when the cache has none and the server accepts it.
GetOrCreateBuild(got, fresh) ==
  \/ /\ buildCache.phase # "absent"
     /\ got = buildCache
     /\ fresh = buildFresh
     /\ NoFault
     /\ UNCHANGED buildVars
  \/ /\ buildCache.phase = "absent"
     /\ build.phase = "absent"
     /\ got = NewBuild
     /\ fresh = TRUE
     /\ NoFault
     /\ PutBuild(NewBuild)

\* GetOrCreateBuild fails: the build exists but is not in the cache yet, or
\* the server refuses the request.
GetOrCreateBuildErr ==
  /\ \/ buildCache.phase = "absent" /\ build.phase # "absent" /\ NoFault
     \/ Fault("api")
  /\ UNCHANGED buildVars

\* newBuilderState: look for a build before starting one.
NewBuilderBuild ==
  /\ Watched
  /\ wk.pc = "newBuilderBuild"
  /\ \/ \E got \in {buildCache, NewBuild}, fresh \in BOOLEAN :
          /\ GetOrCreateBuild(got, fresh)
          /\ \/ /\ got.phase # "Failed"
                /\ WfFinishWith(
                     MarkFalse(MarkFalse(wk.conds, "Built", "BuildIsRunning"),
                               "Running", "WaitingForBuild"), TRUE)
                /\ UNCHANGED queued
             \/ /\ got.phase = "Failed"
                /\ WfReturn(TRUE)
     \/ /\ GetOrCreateBuildErr
        /\ WfFinishWith(MarkFalse(wk.conds, "Built", "BuildFailed"), FALSE)
        /\ UNCHANGED queued
  /\ UNCHANGED <<wfVars, bk, clusterVars, restarts>>

\* The conditions of a workflow whose build has finished.
BuildFinished(conds) ==
  MarkTrue(MarkFalse(conds, "Running", "WaitingForDeployment"), "Built")

\* Only a workflow that is still ready has its deployment rolled out.
NeedsRollout(conds) == IsTrue(conds["Running"])

\* followBuildStatusState.
FollowBuild ==
  /\ Watched
  /\ wk.pc = "follow"
  /\ \/ \E got \in {buildCache, NewBuild}, fresh \in BOOLEAN :
          /\ GetOrCreateBuild(got, fresh)
          /\ \/ /\ got.phase = "Succeeded"
                /\ IF NeedsRollout(wk.conds)
                   THEN WfGoto("rollout", wk.conds)
                   ELSE WfFinishWith(BuildFinished(wk.conds), TRUE)
                /\ UNCHANGED queued
             \/ /\ got.phase \in {"Failed", "Error"}
                /\ WfFinishWith(MarkFalse(wk.conds, "Built", "BuildFailed"), TRUE)
                /\ UNCHANGED queued
             \/ /\ got.phase = "Running" /\ ~IsBuildRunning(wk.conds)
                /\ WfFinishWith(MarkFalse(wk.conds, "Built", "BuildIsRunning"), TRUE)
                /\ UNCHANGED queued
             \/ /\ got.phase \notin {"Succeeded", "Failed", "Error"}
                /\ got.phase = "Running" => IsBuildRunning(wk.conds)
                /\ WfReturn(TRUE)
     \/ /\ GetOrCreateBuildErr
        /\ WfFinishWith(MarkFalse(wk.conds, "Built", "BuildFailed"), TRUE)
        /\ UNCHANGED queued
  /\ UNCHANGED <<wfVars, bk, clusterVars, restarts>>

\* followBuildStatusState: RolloutDeployment for a workflow that is ready.
FollowRollout ==
  /\ Watched
  /\ wk.pc = "rollout"
  /\ \/ /\ NoFault
        /\ deploy' = [deploy EXCEPT !.rolling = deploy.exists]
        /\ WfFinishWith(BuildFinished(wk.conds), TRUE)
        /\ UNCHANGED queued
     \/ /\ deploy.exists /\ Fault("api")
        /\ WfReturn(TRUE)
        /\ UNCHANGED deploy
  /\ UNCHANGED <<wfVars, buildVars, bk, props, ctx, podVars, registry, restarts>>

\* Seeded fault: a change is never seen.
IsWorkflowChanged_Never(request) == FALSE

\* isWorkflowChanged: no CRC in the status means no change.
IsWorkflowChanged(request) == request.crc # 0 /\ request.flow # request.crc

\* deployWithBuildWorkflowState up to the choice between a new build and
\* the deployment of the one there is.
DeployCheck ==
  /\ Watched
  /\ wk.pc = "deploy"
  /\ \/ \E got \in {buildCache, NewBuild}, fresh \in BOOLEAN :
          /\ GetOrCreateBuild(got, fresh)
          /\ wk' = [wk EXCEPT !.pc = IF IsWorkflowChanged(wk) THEN "restart" ELSE "objects",
                              !.build = got, !.buildFresh = fresh]
          /\ UNCHANGED queued
     \/ /\ GetOrCreateBuildErr
        /\ WfReturn(TRUE)
  /\ UNCHANGED <<wfVars, bk, clusterVars, restarts>>

\* deployWithBuildWorkflowState: MarkToRestart and the conditions of the
\* workflow, which the next step persists.
DeployRestart ==
  /\ Watched
  /\ wk.pc = "restart"
  /\ \/ /\ WriteOk(wk.buildFresh)
        /\ PutBuild([build EXCEPT !.phase = "None"])
        /\ WfFinishWith(MarkUnknown(MarkFalse(wk.conds, "Built", "BuildIsRunning"),
                                    "Running", {"Built"}, "Running", ""), FALSE)
        /\ bk' = StaleBk([build EXCEPT !.phase = "None"])
        /\ UNCHANGED queued
     \/ /\ WriteErr(wk.buildFresh)
        /\ WfReturn(TRUE)
        /\ UNCHANGED <<buildVars, bk>>
  /\ UNCHANGED <<wfVars, clusterVars, restarts>>

\* The error deployWithBuildWorkflowState gets from reconcileWithImage.
DeployFailed == WfFinishWith(MarkFalse(wk.conds, "Running", "DeploymentFailure"), FALSE)

\* Go on to the status update of reconcileWithImage.
DeployFinishWith(conds) ==
  wk' = [wk EXCEPT !.pc = "deployFinish", !.conds = conds, !.requeue = TRUE]

\* DeploymentReconciler.ensureObjects.  The server refuses a Deployment
\* without an image.
DeployObjects ==
  /\ Watched
  /\ wk.pc = "objects"
  /\ wk.build.image /\ NoFault
  /\ props' = TRUE
  /\ \/ /\ ~deploy.exists
        /\ deploy' = [NoDeployment EXCEPT !.exists = TRUE]
        /\ DeployFinishWith(MarkFalse(wk.conds, "Running", "WaitingForDeployment"))
     \/ /\ deploy.exists
        /\ WfGoto("sync", wk.conds)
        /\ UNCHANGED deploy
  /\ UNCHANGED <<wfVars, buildVars, bk, queued, ctx, podVars, registry, restarts>>

\* ensureObjects fails at one of its objects, the ones before it in place:
\* the properties, the deployment, the service or the eventing objects.
DeployObjectsErr ==
  /\ Watched
  /\ wk.pc = "objects"
  /\ \/ /\ Fault("api")
        /\ WfGoto("objectsFailed", MarkFalse(wk.conds, "Running", "ExternalResourcesNotFound"))
        /\ UNCHANGED <<props, deploy>>
     \/ /\ Fault("api") \/ (~wk.build.image /\ NoFault)
        /\ props' = TRUE
        /\ WfGoto("objectsFailed", MarkFalse(wk.conds, "Running", "DeploymentUnavailable"))
        /\ UNCHANGED deploy
     \/ /\ wk.build.image /\ Fault("api")
        /\ props' = TRUE
        /\ deploy' = [deploy EXCEPT !.exists = TRUE]
        /\ \/ WfGoto("objectsFailed", MarkFalse(wk.conds, "Running", "DeploymentUnavailable"))
           \/ DeployFailed
  /\ UNCHANGED <<wfVars, buildVars, bk, queued, ctx, podVars, registry, restarts>>

\* ensureObjects has failed: it updates the status dropping the error, and
\* deployWithBuildWorkflowState then reports a deployment failure.
DeployObjectsFailed ==
  /\ Watched
  /\ wk.pc = "objectsFailed"
  /\ \/ WriteOk(wk.fresh) /\ PutWf(StatusOf(wk))
     \/ WriteErr(wk.fresh) /\ UNCHANGED wfVars
  /\ DeployFailed
  /\ UNCHANGED <<buildVars, bk, queued, clusterVars, restarts>>

\* SyncDeploymentStatus: the Running condition a deployment stands for.
DeploymentCondition(conds) ==
  IF ~deploy.exists THEN MarkFalse(conds, "Running", "DeploymentUnavailable")
  ELSE IF deploy.health = "available" THEN MarkTrue(conds, "Running")
  ELSE IF deploy.health = "failed" THEN MarkFalse(conds, "Running", "DeploymentFailure")
  ELSE IF deploy.health = "unavailable"
       THEN MarkFalse(conds, "Running", "DeploymentUnavailable")
  ELSE MarkFalse(conds, "Running", "WaitingForDeployment")

\* reconcileWithImage: SyncDeploymentStatus, which may fail to read.
DeploySync ==
  /\ Watched
  /\ wk.pc = "sync"
  /\ \/ /\ NoFault
        /\ DeployFinishWith(DeploymentCondition(wk.conds))
     \/ /\ Fault("api")
        /\ DeployFailed
  /\ UNCHANGED <<wfVars, buildVars, bk, queued, clusterVars, restarts>>

\* The status update of ensureObjects or reconcileWithImage; its error is
\* one more reason to report a deployment failure.
DeployFinish ==
  /\ Watched
  /\ wk.pc = "deployFinish"
  /\ \/ WriteOk(wk.fresh) /\ PutWf(StatusOf(wk)) /\ WfReturn(wk.requeue)
     \/ WriteErr(wk.fresh) /\ UNCHANGED <<wfVars, queued>> /\ DeployFailed
  /\ UNCHANGED <<buildVars, bk, clusterVars, restarts>>

\* PerformStatusUpdate at the end of a handler: its error fails the request.
WfFinish ==
  /\ Watched
  /\ wk.pc = "finish"
  /\ \/ WriteOk(wk.fresh) /\ PutWf(StatusOf(wk)) /\ WfReturn(wk.requeue)
     \/ WriteErr(wk.fresh) /\ UNCHANGED wfVars /\ WfReturn(TRUE)
  /\ UNCHANGED <<buildVars, bk, clusterVars, restarts>>

-----------------------------------------------------------------------------
(* The build reconciler and the container builder.                         *)

BkReturn(requeue) ==
  /\ bk' = IdleBuild
  /\ IF requeue THEN Enqueue({"build"}) ELSE UNCHANGED queued

Terminal == {"Succeeded", "Error", "Failed"}

\* SonataFlowBuildReconciler.Reconcile: schedule, reconcile or nothing.
BkStart ==
  /\ Watched
  /\ bk.pc = "idle"
  /\ "build" \in queued
  /\ queued' = queued \ {"build"}
  /\ LET read == [IdleBuild EXCEPT !.build = buildCache, !.fresh = buildFresh]
     IN \/ /\ buildCache.phase # "absent"
           /\ buildCache.phase = "None" \/ buildCache.restart
           /\ bk' = [read EXCEPT !.pc = "schedule"]
        \/ /\ buildCache.phase \notin Terminal \union {"absent", "None"}
           /\ ~buildCache.restart
           /\ bk' = [read EXCEPT !.pc = "reconcile"]
        \/ /\ \/ buildCache.phase = "absent"
              \/ buildCache.phase \in Terminal /\ ~buildCache.restart
           /\ UNCHANGED bk
  /\ UNCHANGED <<wfVars, buildVars, wk, clusterVars, budgetVars>>

\* The cached builder pod is gone.
PodSeenGone == podCache.state = "none"

\* The builder pod as a deletion leaves it until it is gone.
Deleted == IF pod.state = "none" THEN pod ELSE [pod EXCEPT !.deleting = TRUE]

\* Seeded fault: the old pod is deleted but not waited for.
InitializePod_NoWait(gone) ==
  /\ gone = TRUE
  /\ PutPod(Deleted)
  /\ UNCHANGED overlooked

\* initializePodAction: the builder pod is deleted on the server and looked
\* for in the cache; the action is done once it is not there.
InitializePod(gone) ==
  /\ gone = PodSeenGone
  /\ PutPod(Deleted)
  /\ overlooked' = IF gone THEN pod.state # "none" ELSE overlooked

\* containerBuilderManager.Schedule: the build context gets the flow of the
\* cached workflow.  The cached ConfigMap may be too old to be written.
BkSchedule ==
  /\ Watched
  /\ bk.pc = "schedule"
  /\ \/ /\ NoFault
        /\ ctx' = wfCache.flow
        /\ bk' = [bk EXCEPT !.pc = "initialize"]
        /\ UNCHANGED queued
     \/ /\ Fault("api") \/ ConfigsMayLag
        /\ BkReturn(TRUE)
        /\ UNCHANGED ctx
  /\ UNCHANGED <<wfVars, buildVars, wk, props, podVars, registry, deploy, restarts>>

\* Schedule then runs the first action of the new container build, whose
\* phase is empty; a phase that stays empty is reported as Initialization.
BkInitialize ==
  /\ Watched
  /\ bk.pc = "initialize"
  /\ \/ /\ NoFault
        /\ \E gone \in BOOLEAN :
             /\ InitializePod(gone)
             /\ bk' = [bk EXCEPT !.pc = "scheduleStatus",
                                 !.build.phase = IF gone THEN "Scheduling" ELSE "Initialization"]
        /\ UNCHANGED queued
     \/ /\ Fault("api")
        /\ BkReturn(TRUE)
        /\ UNCHANGED podVars
  /\ UNCHANGED <<wfVars, buildVars, wk, props, ctx, registry, deploy, restarts>>

\* scheduleNewBuild: the status update that follows Schedule.
BkScheduleStatus ==
  /\ Watched
  /\ bk.pc = "scheduleStatus"
  /\ \/ /\ WriteOk(bk.fresh)
        /\ PutBuild(bk.build)
        /\ wk' = StaleWkBuild(bk.build)
        /\ IF bk.build.restart
           THEN bk' = [bk EXCEPT !.pc = "annotation"] /\ UNCHANGED queued
           ELSE BkReturn(TRUE)
     \/ /\ WriteErr(bk.fresh)
        /\ BkReturn(TRUE)
        /\ UNCHANGED <<buildVars, wk>>
  /\ UNCHANGED <<wfVars, clusterVars, restarts>>

\* Seeded fault: the annotation stays.
AnnotationCleared_Kept(b) == b

\* The build with its restart annotation set to false.
AnnotationCleared(b) == [b EXCEPT !.restart = FALSE]

\* scheduleNewBuild: the restart annotation is removed, once the build is scheduled.
BkAnnotation ==
  /\ Watched
  /\ bk.pc = "annotation"
  /\ LET cleared == AnnotationCleared(bk.build)
     IN \/ /\ WriteOk(bk.fresh)
           /\ PutBuild(cleared)
           /\ wk' = StaleWkBuild(cleared)
           /\ bk' = [bk EXCEPT !.pc = "signal", !.build = cleared]
           /\ UNCHANGED queued
        \/ /\ WriteErr(bk.fresh)
           /\ BkReturn(TRUE)
           /\ UNCHANGED <<buildVars, wk>>
  /\ UNCHANGED <<wfVars, clusterVars, restarts>>

\* scheduleNewBuild: SetBuiltStatusToRunning, on the cached workflow.
BkSignal ==
  /\ Watched
  /\ bk.pc = "signal"
  /\ LET new == [wfCache EXCEPT !.conds = MarkFalse(@, "Built", "BuildIsRunning")]
     IN \/ /\ WriteOk(wfFresh)
           /\ PutWf(new)
           /\ wk' = StaleWk(new)
        \/ /\ WriteErr(wfFresh)
           /\ UNCHANGED <<wfVars, wk>>
  /\ BkReturn(TRUE)
  /\ UNCHANGED <<buildVars, clusterVars, restarts>>

\* Seeded fault: a pod that runs is taken for one that is done.
MonitoredPhases_Eager(phase) ==
  IF podCache.state \in {"Running", "Succeeded"} THEN {"Succeeded"} ELSE {phase}

\* monitorPodAction on a builder pod that exists.  A pending pod that has a
\* node, which may still be running its init containers, counts as running.
MonitoredPhases(phase) ==
  IF podCache.state = "Succeeded" THEN {"Succeeded"}
  ELSE IF podCache.state = "Failed"
       THEN {IF podCache.deleting THEN "Interrupted" ELSE "Failed"}
  ELSE IF podCache.state = "Running" THEN {"Running"}
  ELSE {phase, "Running"}

\* The container builder's Reconcile: the first action that can handle the
\* phase, with the phase it leaves.  The phase of a container build whose
\* earlier pod is still there has stayed empty, and so becomes the build's:
\* the next request schedules it again.
WaitForPod(phase) ==
  /\ bk.build.phase = "Initialization"
  /\ \E gone \in BOOLEAN :
       /\ InitializePod(gone)
       /\ phase = IF gone THEN "Scheduling" ELSE "None"

ScheduleBuild(phase) ==
  /\ bk.build.phase = "Scheduling"
  /\ phase = "Pending"
  /\ UNCHANGED podVars

\* The container builder can create a pod: it sees none, there is none, and
\* the properties ConfigMaps exist.
CanCreatePod == PodSeenGone /\ pod.state = "none" /\ props

\* A pod that is not seen is created while the build is pending and an
\* interruption later.
MonitorPod(phase) ==
  /\ bk.build.phase \in {"Pending", "Running"}
  /\ \/ /\ ~PodSeenGone
        /\ phase \in MonitoredPhases(bk.build.phase)
        /\ UNCHANGED podVars
     \/ /\ bk.build.phase = "Pending" /\ CanCreatePod
        /\ phase = "Pending"
        /\ PutPod([NoPod EXCEPT !.state = "Pending"])
        /\ UNCHANGED overlooked
     \/ /\ bk.build.phase = "Running" /\ PodSeenGone
        /\ phase = "Interrupted"
        /\ UNCHANGED podVars

\* A pod is not created: it exists but is not in the cache yet, or one of the
\* ConfigMaps it mounts does not, or is not in the cache yet.
MonitorPodErr ==
  /\ bk.build.phase = "Pending" /\ PodSeenGone
  /\ \/ (pod.state # "none" \/ ~props) /\ NoFault
     \/ ConfigsMayLag

\* containerBuilderManager.Reconcile; the image tag is the inner build's,
\* which only a build that has succeeded has.
BkReconcile ==
  /\ Watched
  /\ bk.pc = "reconcile"
  /\ \/ /\ NoFault
        /\ \E phase \in Phases :
             /\ \/ WaitForPod(phase)
                \/ ScheduleBuild(phase)
                \/ MonitorPod(phase)
                \/ bk.build.phase = "Interrupted" /\ phase = "Interrupted" /\ UNCHANGED podVars
             /\ bk' = [bk EXCEPT !.pc = "reconcileStatus", !.build.phase = phase,
                                 !.build.image = (phase = "Succeeded")]
        /\ UNCHANGED queued
     \/ /\ MonitorPodErr \/ Fault("api")
        /\ BkReturn(TRUE)
        /\ UNCHANGED podVars
  /\ UNCHANGED <<wfVars, buildVars, wk, props, ctx, registry, deploy, restarts>>

\* SonataFlowBuildReconciler.Reconcile: the status update after Reconcile.
BkReconcileStatus ==
  /\ Watched
  /\ bk.pc = "reconcileStatus"
  /\ \/ /\ WriteOk(bk.fresh)
        /\ PutBuild(bk.build)
        /\ wk' = StaleWkBuild(bk.build)
     \/ /\ WriteErr(bk.fresh)
        /\ UNCHANGED <<buildVars, wk>>
  /\ BkReturn(TRUE)
  /\ UNCHANGED <<wfVars, clusterVars, restarts>>

-----------------------------------------------------------------------------
(* Watch events, the operator process and the environment.                 *)

DeliverWf ==
  /\ ~wfFresh
  /\ wfCache' = wf
  /\ wfFresh' = TRUE
  /\ Enqueue({"workflow"})
  /\ UNCHANGED <<wf, buildVars, wk, bk, clusterVars, budgetVars>>

\* The workflow controller owns the build, so both controllers are woken.
DeliverBuild ==
  /\ ~buildFresh
  /\ buildCache' = build
  /\ buildFresh' = TRUE
  /\ Enqueue({"workflow", "build"})
  /\ UNCHANGED <<build, wfVars, wk, bk, clusterVars, budgetVars>>

\* No controller watches the builder pod: only the cache changes.
DeliverPod ==
  /\ podCache # pod
  /\ podCache' = pod
  /\ UNCHANGED <<pod, overlooked, wfVars, buildVars, wk, bk, queued, props, ctx, registry,
                 deploy, budgetVars>>

\* The informers' periodic resync (ten hours by default), which matters
\* when no other event would wake a controller again.
Resync ==
  /\ Watched
  /\ queued = {}
  /\ queued' = {"workflow", "build"}
  /\ UNCHANGED <<wfVars, buildVars, wk, bk, clusterVars, budgetVars>>

\* The operator crashes and starts again: both requests in progress are
\* lost, the caches are listed anew and every object is queued.
OperatorRestart ==
  /\ Fault("crash")
  /\ wk' = IdleWf /\ bk' = IdleBuild
  /\ wfCache' = wf /\ wfFresh' = TRUE
  /\ buildCache' = build /\ buildFresh' = TRUE
  /\ podCache' = pod
  /\ queued' = {"workflow", "build"}
  /\ UNCHANGED <<wf, build, pod, overlooked, props, ctx, registry, deploy, restarts>>

\* The kubelet starts the builder pod, which reads its mounted context.
PodStarts ==
  /\ Watched
  /\ pod.state = "Pending" /\ ~pod.deleting
  /\ PutPod([pod EXCEPT !.state = "Running", !.bits = ctx])
  /\ UNCHANGED <<overlooked, wfVars, buildVars, wk, bk, queued, props, ctx, registry, deploy,
                 budgetVars>>

\* Kaniko pushes the image; a pod that is being deleted may still do so.
PodSucceeds ==
  /\ Watched
  /\ pod.state = "Running"
  /\ PutPod([pod EXCEPT !.state = "Succeeded"])
  /\ registry' = pod.bits
  /\ deploy' = [deploy EXCEPT !.latest = FALSE]
  /\ UNCHANGED <<overlooked, wfVars, buildVars, wk, bk, queued, props, ctx, budgetVars>>

PodFails ==
  /\ Watched
  /\ pod.state = "Running"
  /\ Fault("pod")
  /\ PutPod([pod EXCEPT !.state = "Failed"])
  /\ UNCHANGED <<overlooked, wfVars, buildVars, wk, bk, queued, props, ctx, registry, deploy,
                 restarts>>

\* Somebody else deletes the builder pod: an eviction, a user.
PodEvicted ==
  /\ Watched
  /\ pod.state # "none" /\ ~pod.deleting
  /\ Fault("pod")
  /\ PutPod(Deleted)
  /\ UNCHANGED <<overlooked, wfVars, buildVars, wk, bk, queued, props, ctx, registry, deploy,
                 restarts>>

PodGone ==
  /\ Watched
  /\ pod.deleting
  /\ PutPod(NoPod)
  /\ UNCHANGED <<overlooked, wfVars, buildVars, wk, bk, queued, props, ctx, registry, deploy,
                 budgetVars>>

\* The pods of the Deployment start, with the image tagged latest
\* (imagePullPolicy Always), after its creation or a rollout.
DeploymentPodsStart ==
  /\ Watched
  /\ deploy.exists
  /\ deploy.rolling \/ deploy.health # "available"
  /\ deploy' = [deploy EXCEPT !.rolling = FALSE, !.latest = TRUE, !.health = "available"]
  /\ Enqueue({"workflow"})
  /\ UNCHANGED <<wfVars, buildVars, wk, bk, props, ctx, podVars, registry, budgetVars>>

DeploymentDegrades ==
  /\ Watched
  /\ deploy.exists /\ Fault("deployment")
  /\ \E health \in {"failed", "unavailable"} : deploy' = [deploy EXCEPT !.health = health]
  /\ Enqueue({"workflow"})
  /\ UNCHANGED <<wfVars, buildVars, wk, bk, props, ctx, podVars, registry, restarts>>

DeploymentDeleted ==
  /\ Watched
  /\ deploy.exists /\ Fault("deployment")
  /\ deploy' = NoDeployment
  /\ Enqueue({"workflow"})
  /\ UNCHANGED <<wfVars, buildVars, wk, bk, props, ctx, podVars, registry, restarts>>

\* Nothing is under way: the workflow is up with a finished build and the
\* status speaks of its flow.
Settled ==
  /\ wfFresh /\ buildFresh
  /\ wk.pc = "idle" /\ bk.pc = "idle"
  /\ wf.crc = wf.flow
  /\ IsTrue(wf.conds["Running"]) /\ IsTrue(wf.conds["Built"])
  /\ build.phase = "Succeeded" /\ ~build.restart
  /\ deploy.exists /\ ~deploy.rolling /\ deploy.health = "available"

\* The user changes .spec.flow.
UserEdits ==
  /\ Watched
  /\ EditAnyTime \/ Settled
  /\ wf.flow < MaxFlow
  /\ LET new == [wf EXCEPT !.flow = @ + 1]
     IN PutWf(new) /\ wk' = StaleWk(new)
  /\ UNCHANGED <<buildVars, bk, queued, clusterVars, budgetVars>>

\* The user sets the restart annotation of the build to true.
UserRestarts ==
  /\ Watched
  /\ EditAnyTime \/ Settled \/ build.phase = "Failed"
  /\ build.phase # "absent" /\ ~build.restart
  /\ restarts < MaxRestarts
  /\ restarts' = restarts + 1
  /\ LET new == [build EXCEPT !.restart = TRUE]
     IN PutBuild(new) /\ wk' = StaleWkBuild(new) /\ bk' = StaleBk(new)
  /\ UNCHANGED <<wfVars, queued, clusterVars, faults>>

-----------------------------------------------------------------------------
(* The specification.                                                      *)

WorkflowController ==
  \/ WfStart \/ NewBuilderUpdate \/ NewBuilderProps \/ NewBuilderBuild
  \/ FollowBuild \/ FollowRollout
  \/ DeployCheck \/ DeployRestart \/ DeployObjects \/ DeployObjectsErr
  \/ DeployObjectsFailed \/ DeploySync \/ DeployFinish
  \/ WfFinish \/ WfNoPlatform

BuildController ==
  \/ BkStart \/ BkSchedule \/ BkInitialize \/ BkScheduleStatus \/ BkAnnotation \/ BkSignal
  \/ BkReconcile \/ BkReconcileStatus

Environment ==
  \/ DeliverWf \/ DeliverBuild \/ DeliverPod \/ Resync \/ OperatorRestart
  \/ PodStarts \/ PodSucceeds \/ PodFails \/ PodEvicted \/ PodGone
  \/ DeploymentPodsStart \/ DeploymentDegrades \/ DeploymentDeleted
  \/ UserEdits \/ UserRestarts

Next == WorkflowController \/ BuildController \/ Environment

Spec == Init /\ [][Next]_vars

\* The steps of the cluster itself.
Cluster == PodStarts \/ PodSucceeds \/ PodGone \/ DeploymentPodsStart

\* The operator's workers keep taking requests, watches deliver, and the
\* cluster runs the pods it has accepted.  Users and faults are not fair.
\* Fairness is strong where the workflow controller can keep waking itself:
\* Watched then disables the other threads again and again, and the code's
\* threads are not held up by each other.
FairSpec ==
  /\ Spec
  /\ WF_vars(WorkflowController)
  /\ SF_vars(BuildController)
  /\ WF_vars(DeliverWf)
  /\ WF_vars(DeliverBuild)
  /\ WF_vars(DeliverPod)
  /\ WF_vars(Resync)
  /\ SF_vars(Cluster)

-----------------------------------------------------------------------------
(* Properties.                                                             *)

\* Every status that any writer persists is accepted by one of the three
\* states of the preview profile: the state machine never ends in "unknown
\* state condition" (profiles/common/reconciler.go), whoever wrote last.
AlwaysReconcilable == Dispatch(Initialized(wf.conds)) # "none"

\* A workflow is reported as built only once an image of it has been pushed,
\* whatever the order of the two controllers, the builder pod and restarts.
BuiltHasImage == IsTrue(wf.conds["Built"]) => registry # 0

\* A build that has succeeded and is not being restarted has pushed the flow
\* of its own build context: no earlier builder pod, deleted by
\* initializePodAction but still running, is taken for the new one, neither
\* the pod on the server nor an old copy of it in the cache.  The exception is
\* an earlier pod that the cache had not seen at all when it was waited for.
SucceededBuildPushedItsContext ==
  build.phase = "Succeeded" /\ ~build.restart /\ ~overlooked => registry = ctx

\* The image of a workflow that has settled is built from the flow that the
\* CRC in its status stands for (isWorkflowChanged relies on it), with the
\* same exception.
ImageMatchesCRC == Settled /\ ~overlooked => registry = wf.crc

\* A workflow that has settled executes the bits of the last image produced
\* (workflowdef/image.go).
LatestBitsRun == Settled => deploy.latest

\* Once the user and the faults stop, the workflow comes up and stays up,
\* unless its build has failed or was interrupted (which only a restart by
\* the user repairs).
Converges ==
  <>[](\/ IsTrue(wf.conds["Running"]) /\ IsTrue(wf.conds["Built"])
       \/ build.phase \in {"Failed", "Interrupted"})

\* A restart asked for with the annotation is taken up.
RestartTakenUp == build.restart ~> ~build.restart
=============================================================================
