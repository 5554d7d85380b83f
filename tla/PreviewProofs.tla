---------------------------- MODULE PreviewProofs ----------------------------
(***************************************************************************)
(* Proofs about PreviewProfile, for every bound, every set of faults, with *)
(* and without cache lag.                                                  *)
(***************************************************************************)
EXTENDS PreviewProfile, TLAPS

\* The types of the flows, reasons, builds, pods, deployments and requests a
\* step builds anew.
LEMMA ConstantTypes ==
  /\ 0 \in Flows /\ 1 \in Flows
  /\ NilConds \in ConditionMap
  /\ NoBuild \in Build
  /\ NewBuild \in Build
  /\ NoPod \in Pod
  /\ NoDeployment \in Deployment
  /\ IdleWf \in WorkflowRequest
  /\ IdleBuild \in BuildRequest
  /\ NewWorkflow \in Workflow
<1>1. 0 \in Flows /\ 1 \in Flows
  BY BoundsAssumption DEF BoundsAssumption, Flows
<1>2. NilConds \in ConditionMap
  BY DEF NilConds, NilCond, Cond, ConditionMap, Condition, Reasons
<1>3. NoBuild \in Build /\ NewBuild \in Build
  BY DEF NoBuild, NewBuild, Build, Phases
<1>4. NoPod \in Pod
  BY <1>1 DEF NoPod, Pod
<1>5. NoDeployment \in Deployment
  BY <1>1 DEF NoDeployment, Deployment
<1>6. IdleWf \in WorkflowRequest
  BY <1>1, <1>2, <1>3 DEF IdleWf, WorkflowRequest, WfSteps
<1>7. IdleBuild \in BuildRequest
  BY <1>3 DEF IdleBuild, BuildRequest, BuildSteps
<1>8. NewWorkflow \in Workflow
  BY <1>1, <1>2 DEF NewWorkflow, Workflow
<1>. QED
  BY <1>1, <1>2, <1>3, <1>4, <1>5, <1>6, <1>7, <1>8

\* Marking a condition keeps a map of conditions.
LEMMA MarkTypes ==
  ASSUME NEW conds \in ConditionMap, NEW t \in {"Running", "Built"}, NEW reason \in Reasons
  PROVE  /\ MarkFalse(conds, t, reason) \in ConditionMap
         /\ MarkTrue(conds, t) \in ConditionMap
         /\ MarkUnknown(conds, "Running", {"Built"}, t, reason) \in ConditionMap
<1>1. ASSUME NEW c \in ConditionMap, NEW u \in {"Running", "Built"},
             NEW s \in {"True", "False", "Unknown"}, NEW r \in Reasons
      PROVE  SetCondition(c, u, Cond(s, r)) \in ConditionMap
  BY DEF SetCondition, Cond, ConditionMap, Condition
<1>2. "" \in Reasons
  BY DEF Reasons
<1>3. MarkFalse(conds, t, reason) \in ConditionMap
  BY <1>1 DEF MarkFalse
<1>4. MarkTrue(conds, t) \in ConditionMap
  BY <1>1, <1>2 DEF MarkTrue
<1>5. MarkUnknown(conds, "Running", {"Built"}, t, reason) \in ConditionMap
  <2>1. SetCondition(conds, t, Cond("Unknown", reason)) \in ConditionMap
    BY <1>1
  <2>2. MarkFalse(SetCondition(conds, t, Cond("Unknown", reason)), "Running", reason) \in ConditionMap
    BY <1>1, <2>1 DEF MarkFalse
  <2>3. SetCondition(SetCondition(conds, t, Cond("Unknown", reason)), "Running",
                     Cond("Unknown", reason)) \in ConditionMap
    BY <1>1, <2>1
  <2>. QED
    BY <2>1, <2>2, <2>3 DEF MarkUnknown
<1>. QED
  BY <1>3, <1>4, <1>5

\* Initializing the conditions keeps a map of conditions.
LEMMA InitializedType ==
  ASSUME NEW conds \in ConditionMap
  PROVE  Initialized(conds) \in ConditionMap
<1>1. DOMAIN conds = {"Running", "Built"}
  BY DEF ConditionMap
<1>2. Cond("Unknown", "") \in Condition /\ Cond("True", "") \in Condition
  BY DEF Cond, Condition, Reasons
<1>3. NilCond \in Condition
  BY DEF NilCond, Cond, Condition, Reasons
<1>. QED
  BY <1>1, <1>2, <1>3 DEF Initialized, InitializeConditions, ConditionMap

\* The fields of a request of the workflow reconciler may be replaced.
LEMMA RequestUpdate ==
  ASSUME NEW w \in WorkflowRequest, NEW pc \in WfSteps, NEW conds \in ConditionMap,
         NEW requeue \in BOOLEAN, NEW b \in Build, NEW fresh \in BOOLEAN
  PROVE  /\ [w EXCEPT !.pc = pc, !.conds = conds] \in WorkflowRequest
         /\ [w EXCEPT !.pc = pc, !.conds = conds, !.requeue = requeue] \in WorkflowRequest
         /\ [w EXCEPT !.pc = pc, !.build = b, !.buildFresh = fresh] \in WorkflowRequest
BY DEF WorkflowRequest

\* A request of the workflow reconciler is made of a workflow.
LEMMA NewRequest ==
  ASSUME NEW pc \in WfSteps, NEW w \in Workflow, NEW conds \in ConditionMap, NEW fresh \in BOOLEAN
  PROVE  [IdleWf EXCEPT !.pc = pc, !.flow = w.flow, !.conds = conds, !.crc = w.crc,
                        !.fresh = fresh] \in WorkflowRequest
<1>1. IdleWf \in WorkflowRequest /\ w.flow \in Flows /\ w.crc \in Flows
  BY ConstantTypes DEF Workflow
<1>. QED
  BY <1>1 DEF WorkflowRequest

\* The fields of a workflow may be replaced.
LEMMA WorkflowUpdate ==
  ASSUME NEW w \in Workflow, NEW conds \in ConditionMap, NEW flow \in Flows
  PROVE  /\ [w EXCEPT !.conds = conds, !.crc = flow] \in Workflow
         /\ [w EXCEPT !.conds = conds] \in Workflow
         /\ [w EXCEPT !.flow = flow] \in Workflow
BY DEF Workflow

\* A fault, or none, keeps the count of faults below its bound.
LEMMA FaultType ==
  ASSUME BudgetTypeOK, NEW kind, Fault(kind) \/ NoFault
  PROVE  faults' \in 0..MaxFaults
BY BoundsAssumption DEF BoundsAssumption, BudgetTypeOK, Fault, NoFault

\* So does a write to the API server, whether it goes through or not.
LEMMA WriteType ==
  ASSUME BudgetTypeOK, NEW fresh, WriteOk(fresh) \/ WriteErr(fresh)
  PROVE  faults' \in 0..MaxFaults
BY FaultType DEF WriteOk, WriteErr

\* A write of a workflow keeps the workflow and its cached copy typed.
LEMMA PutWfType ==
  ASSUME WfTypeOK, NEW new \in Workflow, PutWf(new)
  PROVE  WfTypeOK'
<1>1. wf' \in Workflow /\ wfCache' \in Workflow
  BY DEF PutWf, WfTypeOK
<1>2. wfFresh' \in BOOLEAN
  BY Zenon DEF PutWf
<1>. QED
  BY <1>1, <1>2 DEF WfTypeOK

\* A write of a build keeps the build and its cached copy typed.
LEMMA PutBuildType ==
  ASSUME BuildTypeOK, NEW new \in Build, PutBuild(new)
  PROVE  BuildTypeOK'
<1>1. build' \in Build /\ buildCache' \in Build
  BY DEF PutBuild, BuildTypeOK
<1>2. buildFresh' \in BOOLEAN
  BY Zenon DEF PutBuild
<1>. QED
  BY <1>1, <1>2 DEF BuildTypeOK

\* A deletion of the builder pod leaves a pod.
LEMMA DeletedType == ASSUME pod \in Pod PROVE Deleted \in Pod
BY DEF Deleted, Pod

\* initializePodAction leaves the builder pod and its cached copy typed.
LEMMA InitializePodType ==
  ASSUME ClusterTypeOK, NEW gone \in BOOLEAN, InitializePod(gone)
  PROVE  pod' \in Pod /\ podCache' \in Pod /\ overlooked' \in BOOLEAN
<1>1. pod' \in Pod /\ podCache' \in Pod
  BY DeletedType DEF InitializePod, PutPod, ClusterTypeOK
<1>2. overlooked' \in BOOLEAN
  <2>1. (pod.state # "none") \in BOOLEAN
    BY Zenon
  <2>. QED
    BY <2>1 DEF InitializePod, ClusterTypeOK
<1>. QED
  BY <1>1, <1>2

\* The status the workflow reconciler writes is a workflow's.
LEMMA StatusType ==
  ASSUME WfTypeOK, wk \in WorkflowRequest
  PROVE  StatusOf(wk) \in Workflow
<1>1. wk.conds \in ConditionMap /\ wk.flow \in Flows
  BY DEF WorkflowRequest
<1>. QED
  BY <1>1, WorkflowUpdate DEF StatusOf, WfTypeOK

\* A request that returns leaves the reconciler idle and the queue typed.
LEMMA WfReturnType ==
  ASSUME QueueTypeOK, NEW requeue, WfReturn(requeue)
  PROVE  wk' \in WorkflowRequest /\ QueueTypeOK'
BY ConstantTypes DEF QueueTypeOK, WfReturn, Enqueue

\* The same for the build reconciler.
LEMMA BkReturnType ==
  ASSUME QueueTypeOK, NEW requeue, BkReturn(requeue)
  PROVE  bk' \in BuildRequest /\ QueueTypeOK'
BY ConstantTypes DEF QueueTypeOK, BkReturn, Enqueue

\* A request that goes on to another step keeps its type ...
LEMMA WfGotoType ==
  ASSUME wk \in WorkflowRequest, NEW pc \in WfSteps, NEW conds \in ConditionMap, WfGoto(pc, conds)
  PROVE  wk' \in WorkflowRequest
BY DEF WfGoto, WorkflowRequest

\* ... and so does one that goes on to its last status update.
LEMMA WfFinishType ==
  ASSUME wk \in WorkflowRequest, NEW conds \in ConditionMap, NEW requeue \in BOOLEAN,
         WfFinishWith(conds, requeue)
  PROVE  wk' \in WorkflowRequest
BY DEF WfFinishWith, WorkflowRequest, WfSteps

\* The same for the status update of reconcileWithImage.
LEMMA DeployFinishType ==
  ASSUME wk \in WorkflowRequest, NEW conds \in ConditionMap, DeployFinishWith(conds)
  PROVE  wk' \in WorkflowRequest
BY DEF DeployFinishWith, WorkflowRequest, WfSteps

\* A write makes the copies of other controllers stale and nothing else.
LEMMA StaleTypes ==
  ASSUME wk \in WorkflowRequest, bk \in BuildRequest, NEW new
  PROVE  /\ StaleWk(new) \in WorkflowRequest
         /\ StaleWkBuild(new) \in WorkflowRequest
         /\ StaleBk(new) \in BuildRequest
<1>1. (wk.fresh /\ new = wf) \in BOOLEAN
  BY Zenon
<1>2. (wk.buildFresh /\ new = build) \in BOOLEAN
  BY Zenon
<1>3. (bk.fresh /\ new = build) \in BOOLEAN
  BY Zenon
<1>4. StaleWk(new) \in WorkflowRequest
  BY <1>1 DEF StaleWk, WorkflowRequest
<1>5. StaleWkBuild(new) \in WorkflowRequest
  BY <1>2 DEF StaleWkBuild, WorkflowRequest
<1>6. StaleBk(new) \in BuildRequest
  BY <1>3 DEF StaleBk, BuildRequest
<1>. QED
  BY <1>4, <1>5, <1>6

\* GetOrCreateBuild leaves a build, typed, and returns one.
LEMMA GetOrCreateBuildType ==
  ASSUME BuildTypeOK, BudgetTypeOK, NEW got \in {buildCache, NewBuild}, NEW fresh \in BOOLEAN,
         GetOrCreateBuild(got, fresh)
  PROVE  got \in Build /\ BuildTypeOK' /\ faults' \in 0..MaxFaults
<1>1. got \in Build
  BY ConstantTypes DEF BuildTypeOK
<1>2. BuildTypeOK'
  <2>1. CASE UNCHANGED buildVars
    BY <2>1 DEF BuildTypeOK, buildVars
  <2>2. CASE PutBuild(NewBuild)
    BY <2>2, PutBuildType, ConstantTypes
  <2>. QED
    BY <2>1, <2>2 DEF GetOrCreateBuild
<1>3. faults' \in 0..MaxFaults
  BY FaultType DEF GetOrCreateBuild
<1>. QED
  BY <1>1, <1>2, <1>3

\* The Running condition of a deployment is a condition.
LEMMA DeploymentConditionType ==
  ASSUME NEW conds \in ConditionMap
  PROVE  DeploymentCondition(conds) \in ConditionMap
<1>1. {"DeploymentUnavailable", "DeploymentFailure", "WaitingForDeployment"} \subseteq Reasons
  BY DEF Reasons
<1>. QED
  BY <1>1, MarkTypes DEF DeploymentCondition

\* Every step of the workflow reconciler keeps the types.
LEMMA WorkflowControllerType ==
  ASSUME TypeOK, WorkflowController
  PROVE  TypeOK'
<1>. USE DEF wfVars, buildVars, clusterVars, podVars, budgetVars
<1>a. /\ wk \in WorkflowRequest /\ wk.conds \in ConditionMap /\ wk.requeue \in BOOLEAN
      /\ wk.build \in Build /\ bk \in BuildRequest
      /\ WfTypeOK /\ BuildTypeOK /\ QueueTypeOK /\ ClusterTypeOK /\ BudgetTypeOK
  BY DEF TypeOK, WorkflowRequest
<1>b. {"WaitingForPlatform", "WaitingForBuild", "WaitingForDeployment", "BuildIsRunning",
       "BuildFailed", "ExternalResourcesNotFound", "DeploymentFailure",
       "DeploymentUnavailable", ""} \subseteq Reasons
  BY DEF Reasons
<1>c. \A t \in {"Running", "Built"} :
        \A r \in {"WaitingForPlatform", "WaitingForBuild", "WaitingForDeployment",
                  "BuildIsRunning", "BuildFailed", "ExternalResourcesNotFound",
                  "DeploymentFailure", "DeploymentUnavailable", ""} :
          \A c \in ConditionMap : MarkFalse(c, t, r) \in ConditionMap
  BY <1>b, MarkTypes
<1>d. \A pc \in {"newBuilder", "newBuilderProps", "newBuilderBuild", "follow", "rollout",
                 "deploy", "restart", "objects", "objectsFailed", "sync", "deployFinish"} :
        pc \in WfSteps
  BY DEF WfSteps
<1>e. ASSUME UNCHANGED wfVars PROVE WfTypeOK'
  BY <1>a, <1>e DEF WfTypeOK
<1>f. ASSUME UNCHANGED buildVars PROVE BuildTypeOK'
  BY <1>a, <1>f DEF BuildTypeOK
<1>g. ASSUME UNCHANGED clusterVars PROVE ClusterTypeOK'
  BY <1>a, <1>g DEF ClusterTypeOK
<1>h. ASSUME UNCHANGED restarts, faults' \in 0..MaxFaults PROVE BudgetTypeOK'
  BY <1>a, <1>h DEF BudgetTypeOK
<1>i. ASSUME UNCHANGED queued PROVE QueueTypeOK'
  BY <1>a, <1>i DEF QueueTypeOK
<1>j. ASSUME DeployFailed PROVE wk' \in WorkflowRequest
  BY <1>a, <1>c, <1>j, WfFinishType DEF DeployFailed
<1>1. CASE WfStart
  <2>1. wk' \in WorkflowRequest
    <3>1. wfCache \in Workflow /\ wfFresh \in BOOLEAN
      BY <1>a DEF WfTypeOK
    <3>2. Initialized(wfCache.conds) \in ConditionMap
      BY <3>1, InitializedType DEF Workflow
    <3>3. Dispatch(Initialized(wfCache.conds)) \in WfSteps
      BY <1>1, <1>d DEF WfStart, Dispatch
    <3>. QED
      BY <1>1, <3>1, <3>2, <3>3, NewRequest DEF WfStart
  <2>2. QueueTypeOK'
    BY <1>1, <1>a DEF WfStart, QueueTypeOK
  <2>3. BudgetTypeOK'
    BY <1>1, <1>a DEF WfStart, BudgetTypeOK
  <2>. QED
    BY <1>1, <1>a, <1>e, <1>f, <1>g, <2>1, <2>2, <2>3 DEF WfStart, TypeOK
<1>2. CASE WfNoPlatform
  <2>1. wk' \in WorkflowRequest /\ QueueTypeOK'
    BY <1>2, <1>a, <1>c, <1>i, WfFinishType, WfReturnType DEF WfNoPlatform
  <2>2. faults' \in 0..MaxFaults
    BY <1>2, <1>a, FaultType DEF WfNoPlatform
  <2>. QED
    BY <1>2, <1>a, <1>e, <1>f, <1>g, <1>h, <2>1, <2>2 DEF WfNoPlatform, TypeOK
<1>3. CASE NewBuilderUpdate
  <2>1. wk' \in WorkflowRequest
    BY <1>3, <1>a, <1>d, WfGotoType DEF NewBuilderUpdate
  <2>2. faults' \in 0..MaxFaults
    BY <1>3, <1>a, WriteType DEF NewBuilderUpdate
  <2>3. WfTypeOK'
    BY <1>3, <1>a, <1>e, PutWfType, StatusType DEF NewBuilderUpdate
  <2>. QED
    BY <1>3, <1>a, <1>f, <1>g, <1>h, <1>i, <2>1, <2>2, <2>3 DEF NewBuilderUpdate, TypeOK
<1>4. CASE NewBuilderProps
  <2>1. wk' \in WorkflowRequest
    BY <1>4, <1>a, <1>c, <1>d, WfGotoType, WfFinishType DEF NewBuilderProps
  <2>2. faults' \in 0..MaxFaults
    BY <1>4, <1>a, FaultType DEF NewBuilderProps
  <2>3. ClusterTypeOK'
    BY <1>4, <1>a DEF NewBuilderProps, ClusterTypeOK
  <2>. QED
    BY <1>4, <1>a, <1>e, <1>f, <1>h, <1>i, <2>1, <2>2, <2>3 DEF NewBuilderProps, TypeOK
<1>5. ASSUME GetOrCreateBuildErr
      PROVE  BuildTypeOK' /\ faults' \in 0..MaxFaults
  BY <1>5, <1>a, <1>f, FaultType DEF GetOrCreateBuildErr
<1>6. CASE NewBuilderBuild
  <2>1. wk' \in WorkflowRequest /\ QueueTypeOK'
    <3>1. /\ MarkFalse(MarkFalse(wk.conds, "Built", "BuildIsRunning"),
                       "Running", "WaitingForBuild") \in ConditionMap
          /\ MarkFalse(wk.conds, "Built", "BuildFailed") \in ConditionMap
      BY <1>a, <1>c
    <3>. QED
      BY <1>6, <1>a, <1>i, <3>1, WfFinishType, WfReturnType DEF NewBuilderBuild
  <2>2. BuildTypeOK' /\ faults' \in 0..MaxFaults
    BY <1>6, <1>5, <1>a, GetOrCreateBuildType DEF NewBuilderBuild
  <2>. QED
    BY <1>6, <1>a, <1>e, <1>g, <1>h, <2>1, <2>2 DEF NewBuilderBuild, TypeOK
<1>7. BuildFinished(wk.conds) \in ConditionMap
  BY <1>a, <1>b, <1>c, MarkTypes DEF BuildFinished
<1>8. CASE FollowBuild
  <2>1. wk' \in WorkflowRequest /\ QueueTypeOK'
    <3>1. /\ MarkFalse(wk.conds, "Built", "BuildIsRunning") \in ConditionMap
          /\ MarkFalse(wk.conds, "Built", "BuildFailed") \in ConditionMap
      BY <1>a, <1>c
    <3>. QED
      BY <1>8, <1>7, <1>a, <1>d, <1>i, <3>1, WfFinishType, WfGotoType, WfReturnType DEF FollowBuild
  <2>2. BuildTypeOK' /\ faults' \in 0..MaxFaults
    BY <1>8, <1>5, <1>a, GetOrCreateBuildType DEF FollowBuild
  <2>. QED
    BY <1>8, <1>a, <1>e, <1>g, <1>h, <2>1, <2>2 DEF FollowBuild, TypeOK
<1>9. CASE FollowRollout
  <2>1. wk' \in WorkflowRequest /\ QueueTypeOK'
    BY <1>9, <1>7, <1>a, <1>i, WfFinishType, WfReturnType DEF FollowRollout
  <2>2. faults' \in 0..MaxFaults
    BY <1>9, <1>a, FaultType DEF FollowRollout
  <2>3. ClusterTypeOK'
    BY <1>9, <1>a DEF FollowRollout, ClusterTypeOK, Deployment
  <2>. QED
    BY <1>9, <1>a, <1>e, <1>f, <1>h, <2>1, <2>2, <2>3 DEF FollowRollout, TypeOK
<1>10. CASE DeployCheck
  <2>1. BuildTypeOK' /\ faults' \in 0..MaxFaults
    BY <1>10, <1>5, <1>a, GetOrCreateBuildType DEF DeployCheck
  <2>2. wk' \in WorkflowRequest /\ QueueTypeOK'
    <3>1. CASE GetOrCreateBuildErr /\ WfReturn(TRUE)
      BY <3>1, <1>a, WfReturnType
    <3>2. ASSUME NEW got \in {buildCache, NewBuild}, NEW fresh \in BOOLEAN,
                 GetOrCreateBuild(got, fresh), UNCHANGED queued,
                 wk' = [wk EXCEPT !.pc = IF IsWorkflowChanged(wk) THEN "restart" ELSE "objects",
                                  !.build = got, !.buildFresh = fresh]
          PROVE  wk' \in WorkflowRequest /\ QueueTypeOK'
      <4>1. got \in Build
        BY <3>2, <1>a, GetOrCreateBuildType
      <4>2. (IF IsWorkflowChanged(wk) THEN "restart" ELSE "objects") \in WfSteps
        BY <1>d
      <4>. QED
        BY <3>2, <4>1, <4>2, <1>a, <1>i, RequestUpdate
    <3>. QED
      BY <1>10, <3>1, <3>2 DEF DeployCheck
  <2>. QED
    BY <1>10, <1>a, <1>e, <1>g, <1>h, <2>1, <2>2 DEF DeployCheck, TypeOK
<1>11. CASE DeployRestart
  <2>1. [build EXCEPT !.phase = "None"] \in Build
    BY <1>a DEF BuildTypeOK, Build, Phases
  <2>2. BuildTypeOK' /\ bk' \in BuildRequest
    BY <1>11, <1>a, <1>f, <2>1, PutBuildType, StaleTypes DEF DeployRestart
  <2>3. faults' \in 0..MaxFaults
    BY <1>11, <1>a, WriteType DEF DeployRestart
  <2>4. MarkUnknown(MarkFalse(wk.conds, "Built", "BuildIsRunning"),
                    "Running", {"Built"}, "Running", "") \in ConditionMap
    BY <1>a, <1>b, <1>c, MarkTypes
  <2>5. wk' \in WorkflowRequest /\ QueueTypeOK'
    BY <1>11, <1>a, <1>i, <2>4, WfFinishType, WfReturnType DEF DeployRestart
  <2>. QED
    BY <1>11, <1>a, <1>e, <1>g, <1>h, <2>2, <2>3, <2>5 DEF DeployRestart, TypeOK
<1>12. CASE DeployObjects
  <2>1. wk' \in WorkflowRequest
    BY <1>12, <1>a, <1>c, <1>d, WfGotoType, DeployFinishType DEF DeployObjects
  <2>2. ClusterTypeOK'
    BY <1>12, <1>a, ConstantTypes DEF DeployObjects, ClusterTypeOK, Deployment
  <2>3. faults' \in 0..MaxFaults
    BY <1>12, <1>a, FaultType DEF DeployObjects
  <2>. QED
    BY <1>12, <1>a, <1>e, <1>f, <1>h, <1>i, <2>1, <2>2, <2>3 DEF DeployObjects, TypeOK
<1>13. CASE DeployObjectsErr
  <2>1. wk' \in WorkflowRequest
    BY <1>13, <1>a, <1>c, <1>d, <1>j, WfGotoType DEF DeployObjectsErr
  <2>2. ClusterTypeOK'
    BY <1>13, <1>a DEF DeployObjectsErr, ClusterTypeOK, Deployment
  <2>3. faults' \in 0..MaxFaults
    BY <1>13, <1>a, FaultType DEF DeployObjectsErr
  <2>. QED
    BY <1>13, <1>a, <1>e, <1>f, <1>h, <1>i, <2>1, <2>2, <2>3 DEF DeployObjectsErr, TypeOK
<1>14. CASE DeployObjectsFailed
  <2>1. WfTypeOK' /\ faults' \in 0..MaxFaults
    BY <1>14, <1>a, <1>e, PutWfType, StatusType, WriteType DEF DeployObjectsFailed
  <2>2. wk' \in WorkflowRequest
    BY <1>14, <1>j DEF DeployObjectsFailed
  <2>. QED
    BY <1>14, <1>a, <1>f, <1>g, <1>h, <1>i, <2>1, <2>2 DEF DeployObjectsFailed, TypeOK
<1>15. CASE DeploySync
  <2>1. DeploymentCondition(wk.conds) \in ConditionMap
    BY <1>a, DeploymentConditionType
  <2>2. wk' \in WorkflowRequest
    BY <1>15, <1>a, <1>d, <1>j, <2>1, DeployFinishType DEF DeploySync
  <2>3. faults' \in 0..MaxFaults
    BY <1>15, <1>a, FaultType DEF DeploySync
  <2>. QED
    BY <1>15, <1>a, <1>e, <1>f, <1>g, <1>h, <1>i, <2>2, <2>3 DEF DeploySync, TypeOK
<1>16. CASE DeployFinish
  <2>1. WfTypeOK' /\ faults' \in 0..MaxFaults
    BY <1>16, <1>a, <1>e, PutWfType, StatusType, WriteType DEF DeployFinish
  <2>2. wk' \in WorkflowRequest /\ QueueTypeOK'
    BY <1>16, <1>a, <1>i, <1>j, WfReturnType DEF DeployFinish
  <2>. QED
    BY <1>16, <1>a, <1>f, <1>g, <1>h, <2>1, <2>2 DEF DeployFinish, TypeOK
<1>17. CASE WfFinish
  <2>1. WfTypeOK' /\ faults' \in 0..MaxFaults
    BY <1>17, <1>a, <1>e, PutWfType, StatusType, WriteType DEF WfFinish
  <2>2. wk' \in WorkflowRequest /\ QueueTypeOK'
    BY <1>17, <1>a, WfReturnType DEF WfFinish
  <2>. QED
    BY <1>17, <1>a, <1>f, <1>g, <1>h, <2>1, <2>2 DEF WfFinish, TypeOK
<1>. QED
  BY <1>1, <1>2, <1>3, <1>4, <1>6, <1>8, <1>9, <1>10, <1>11, <1>12, <1>13, <1>14, <1>15, <1>16,
     <1>17 DEF WorkflowController

\* Every step of the build reconciler keeps the types.
LEMMA BuildControllerType ==
  ASSUME TypeOK, BuildController
  PROVE  TypeOK'
<1>. USE DEF wfVars, buildVars, clusterVars, podVars, budgetVars
<1>a. /\ wk \in WorkflowRequest /\ bk \in BuildRequest /\ bk.build \in Build
      /\ WfTypeOK /\ BuildTypeOK /\ QueueTypeOK /\ ClusterTypeOK /\ BudgetTypeOK
  BY DEF TypeOK, BuildRequest
<1>b. ASSUME NEW pc \in BuildSteps, NEW phase \in Phases, NEW image \in BOOLEAN, NEW b \in Build
      PROVE  /\ [bk EXCEPT !.pc = pc] \in BuildRequest
             /\ [bk EXCEPT !.pc = pc, !.build = b] \in BuildRequest
             /\ [bk EXCEPT !.pc = pc, !.build.phase = phase] \in BuildRequest
             /\ [bk EXCEPT !.pc = pc, !.build.phase = phase, !.build.image = image] \in BuildRequest
  BY <1>a DEF BuildRequest, Build
<1>e. ASSUME UNCHANGED wfVars PROVE WfTypeOK'
  BY <1>a, <1>e DEF WfTypeOK
<1>f. ASSUME UNCHANGED buildVars PROVE BuildTypeOK'
  BY <1>a, <1>f DEF BuildTypeOK
<1>g. ASSUME UNCHANGED clusterVars PROVE ClusterTypeOK'
  BY <1>a, <1>g DEF ClusterTypeOK
<1>h. ASSUME UNCHANGED restarts, faults' \in 0..MaxFaults PROVE BudgetTypeOK'
  BY <1>a, <1>h DEF BudgetTypeOK
<1>i. ASSUME UNCHANGED queued PROVE QueueTypeOK'
  BY <1>a, <1>i DEF QueueTypeOK
<1>1. CASE BkStart
  <2>1. bk' \in BuildRequest
    <3>1. buildCache \in Build /\ buildFresh \in BOOLEAN /\ IdleBuild \in BuildRequest
      BY <1>a, ConstantTypes DEF BuildTypeOK
    <3>2. ASSUME NEW pc \in BuildSteps
          PROVE  [[IdleBuild EXCEPT !.build = buildCache, !.fresh = buildFresh] EXCEPT !.pc = pc]
                   \in BuildRequest
      BY <3>1 DEF BuildRequest
    <3>3. "schedule" \in BuildSteps /\ "reconcile" \in BuildSteps
      BY DEF BuildSteps
    <3>. QED
      BY <1>1, <1>a, <3>2, <3>3 DEF BkStart
  <2>2. QueueTypeOK' /\ BudgetTypeOK'
    BY <1>1, <1>a DEF BkStart, QueueTypeOK, BudgetTypeOK
  <2>. QED
    BY <1>1, <1>a, <1>e, <1>f, <1>g, <2>1, <2>2 DEF BkStart, TypeOK
<1>2. CASE BkSchedule
  <2>1. bk' \in BuildRequest /\ QueueTypeOK'
    <3>1. [bk EXCEPT !.pc = "initialize"] \in BuildRequest
      BY <1>a DEF BuildRequest, BuildSteps
    <3>. QED
      BY <1>2, <1>a, <1>i, <3>1, BkReturnType DEF BkSchedule
  <2>2. faults' \in 0..MaxFaults
    BY <1>2, <1>a, FaultType DEF BkSchedule, ConfigsMayLag
  <2>3. ClusterTypeOK'
    BY <1>2, <1>a DEF BkSchedule, ClusterTypeOK, WfTypeOK, Workflow
  <2>. QED
    BY <1>2, <1>a, <1>e, <1>f, <1>h, <2>1, <2>2, <2>3 DEF BkSchedule, TypeOK
<1>8. CASE BkInitialize
  <2>1. bk' \in BuildRequest /\ QueueTypeOK'
    <3>1. ASSUME NEW gone \in BOOLEAN, UNCHANGED queued,
                 bk' = [bk EXCEPT !.pc = "scheduleStatus",
                                  !.build.phase = IF gone THEN "Scheduling" ELSE "Initialization"]
          PROVE  bk' \in BuildRequest /\ QueueTypeOK'
      <4>1. (IF gone THEN "Scheduling" ELSE "Initialization") \in Phases
        BY DEF Phases
      <4>2. "scheduleStatus" \in BuildSteps
        BY DEF BuildSteps
      <4>. QED
        BY <3>1, <4>1, <4>2, <1>b, <1>i, ConstantTypes
    <3>2. CASE BkReturn(TRUE)
      BY <3>2, <1>a, BkReturnType
    <3>. QED
      BY <1>8, <3>1, <3>2 DEF BkInitialize
  <2>2. faults' \in 0..MaxFaults
    BY <1>8, <1>a, FaultType DEF BkInitialize
  <2>3. ClusterTypeOK'
    <3>1. pod' \in Pod /\ podCache' \in Pod /\ overlooked' \in BOOLEAN
      BY <1>8, <1>a, InitializePodType DEF BkInitialize, ClusterTypeOK
    <3>. QED
      BY <1>8, <1>a, <3>1 DEF BkInitialize, ClusterTypeOK
  <2>. QED
    BY <1>8, <1>a, <1>e, <1>f, <1>h, <2>1, <2>2, <2>3 DEF BkInitialize, TypeOK
<1>3. CASE BkScheduleStatus
  <2>1. bk' \in BuildRequest /\ QueueTypeOK'
    <3>1. [bk EXCEPT !.pc = "annotation"] \in BuildRequest
      BY <1>a DEF BuildRequest, BuildSteps
    <3>. QED
      BY <1>3, <1>a, <1>i, <3>1, BkReturnType DEF BkScheduleStatus
  <2>2. faults' \in 0..MaxFaults
    BY <1>3, <1>a, WriteType DEF BkScheduleStatus
  <2>3. BuildTypeOK' /\ wk' \in WorkflowRequest
    BY <1>3, <1>a, <1>f, PutBuildType, StaleTypes DEF BkScheduleStatus
  <2>. QED
    BY <1>3, <1>a, <1>e, <1>g, <1>h, <2>1, <2>2, <2>3 DEF BkScheduleStatus, TypeOK
<1>4. CASE BkAnnotation
  <2>1. AnnotationCleared(bk.build) \in Build
    BY <1>a DEF AnnotationCleared, Build
  <2>2. bk' \in BuildRequest /\ QueueTypeOK'
    <3>1. "signal" \in BuildSteps /\ "None" \in Phases
      BY DEF BuildSteps, Phases
    <3>. QED
      BY <1>4, <1>a, <1>b, <1>i, <2>1, <3>1, BkReturnType DEF BkAnnotation
  <2>3. faults' \in 0..MaxFaults
    BY <1>4, <1>a, WriteType DEF BkAnnotation
  <2>4. BuildTypeOK' /\ wk' \in WorkflowRequest
    BY <1>4, <1>a, <1>f, <2>1, PutBuildType, StaleTypes DEF BkAnnotation
  <2>. QED
    BY <1>4, <1>a, <1>e, <1>g, <1>h, <2>2, <2>3, <2>4 DEF BkAnnotation, TypeOK
<1>5. CASE BkSignal
  <2>1. [wfCache EXCEPT !.conds = MarkFalse(@, "Built", "BuildIsRunning")] \in Workflow
    <3>1. wfCache \in Workflow /\ wfCache.conds \in ConditionMap
      BY <1>a DEF WfTypeOK, Workflow
    <3>2. MarkFalse(wfCache.conds, "Built", "BuildIsRunning") \in ConditionMap
      BY <3>1, MarkTypes DEF Reasons
    <3>. QED
      BY <3>1, <3>2 DEF Workflow
  <2>2. WfTypeOK' /\ wk' \in WorkflowRequest
    BY <1>5, <1>a, <1>e, <2>1, PutWfType, StaleTypes DEF BkSignal
  <2>3. faults' \in 0..MaxFaults
    BY <1>5, <1>a, WriteType DEF BkSignal
  <2>4. bk' \in BuildRequest /\ QueueTypeOK'
    BY <1>5, <1>a, BkReturnType DEF BkSignal
  <2>. QED
    BY <1>5, <1>a, <1>f, <1>g, <1>h, <2>2, <2>3, <2>4 DEF BkSignal, TypeOK
<1>6. CASE BkReconcile
  <2>1. bk' \in BuildRequest /\ QueueTypeOK'
    <3>1. ASSUME NEW phase \in Phases, UNCHANGED queued,
                 bk' = [bk EXCEPT !.pc = "reconcileStatus", !.build.phase = phase,
                                  !.build.image = (phase = "Succeeded")]
          PROVE  bk' \in BuildRequest /\ QueueTypeOK'
      <4>1. (phase = "Succeeded") \in BOOLEAN
        BY Zenon
      <4>2. "reconcileStatus" \in BuildSteps
        BY DEF BuildSteps
      <4>. QED
        BY <3>1, <4>1, <4>2, <1>b, <1>i, ConstantTypes
    <3>2. CASE BkReturn(TRUE)
      BY <3>2, <1>a, BkReturnType
    <3>. QED
      BY <1>6, <3>1, <3>2 DEF BkReconcile
  <2>2. faults' \in 0..MaxFaults
    BY <1>6, <1>a, FaultType DEF BkReconcile, MonitorPodErr, ConfigsMayLag
  <2>3. pod' \in Pod /\ podCache' \in Pod /\ overlooked' \in BOOLEAN
    <3>1. [NoPod EXCEPT !.state = "Pending"] \in Pod
      BY ConstantTypes DEF Pod
    <3>2. pod \in Pod /\ podCache \in Pod /\ overlooked \in BOOLEAN
      BY <1>a DEF ClusterTypeOK
    <3>3. ASSUME NEW phase, WaitForPod(phase)
          PROVE  pod' \in Pod /\ podCache' \in Pod /\ overlooked' \in BOOLEAN
      BY <3>3, <1>a, InitializePodType DEF WaitForPod
    <3>4. ASSUME NEW phase, ScheduleBuild(phase) \/ MonitorPod(phase) \/ UNCHANGED podVars
          PROVE  pod' \in Pod /\ podCache' \in Pod /\ overlooked' \in BOOLEAN
      BY <3>4, <3>1, <3>2 DEF ScheduleBuild, MonitorPod, PutPod
    <3>. QED
      BY <1>6, <3>3, <3>4 DEF BkReconcile
  <2>4. ClusterTypeOK'
    BY <1>6, <1>a, <2>3 DEF BkReconcile, ClusterTypeOK
  <2>. QED
    BY <1>6, <1>a, <1>e, <1>f, <1>h, <2>1, <2>2, <2>4 DEF BkReconcile, TypeOK
<1>7. CASE BkReconcileStatus
  <2>1. BuildTypeOK' /\ wk' \in WorkflowRequest
    BY <1>7, <1>a, <1>f, PutBuildType, StaleTypes DEF BkReconcileStatus
  <2>2. faults' \in 0..MaxFaults
    BY <1>7, <1>a, WriteType DEF BkReconcileStatus
  <2>3. bk' \in BuildRequest /\ QueueTypeOK'
    BY <1>7, <1>a, BkReturnType DEF BkReconcileStatus
  <2>. QED
    BY <1>7, <1>a, <1>e, <1>g, <1>h, <2>1, <2>2, <2>3 DEF BkReconcileStatus, TypeOK
<1>. QED
  BY <1>1, <1>2, <1>3, <1>4, <1>5, <1>6, <1>7, <1>8 DEF BuildController

\* Every step of the watches, the process, the cluster and the user keeps
\* the types.
LEMMA EnvironmentType ==
  ASSUME TypeOK, Environment
  PROVE  TypeOK'
<1>. USE DEF wfVars, buildVars, clusterVars, podVars, budgetVars
<1>a. /\ wk \in WorkflowRequest /\ bk \in BuildRequest
      /\ WfTypeOK /\ BuildTypeOK /\ QueueTypeOK /\ ClusterTypeOK /\ BudgetTypeOK
  BY DEF TypeOK
<1>b. pod \in Pod /\ podCache \in Pod /\ deploy \in Deployment /\ ctx \in Flows /\ registry \in Flows
  BY <1>a DEF ClusterTypeOK
<1>1. CASE DeliverWf
  BY <1>1, <1>a DEF DeliverWf, Enqueue, TypeOK, WfTypeOK, BuildTypeOK, QueueTypeOK,
     ClusterTypeOK, BudgetTypeOK
<1>2. CASE DeliverBuild
  BY <1>2, <1>a DEF DeliverBuild, Enqueue, TypeOK, WfTypeOK, BuildTypeOK, QueueTypeOK,
     ClusterTypeOK, BudgetTypeOK
<1>3. CASE Resync
  BY <1>3, <1>a DEF Resync, TypeOK, WfTypeOK, BuildTypeOK, QueueTypeOK, ClusterTypeOK,
     BudgetTypeOK
<1>4. CASE OperatorRestart
  <2>1. faults' \in 0..MaxFaults
    BY <1>4, <1>a, FaultType DEF OperatorRestart
  <2>. QED
    BY <1>4, <1>a, <2>1, ConstantTypes DEF OperatorRestart, TypeOK, WfTypeOK, BuildTypeOK,
       QueueTypeOK, ClusterTypeOK, BudgetTypeOK
<1>5. CASE PodStarts \/ PodSucceeds \/ PodGone \/ PodFails \/ PodEvicted
  <2>1. pod' \in Pod /\ podCache' \in Pod /\ UNCHANGED overlooked
    <3>1. podCache' \in Pod /\ UNCHANGED overlooked
      BY <1>5, <1>b DEF PodStarts, PodSucceeds, PodGone, PodFails, PodEvicted, PutPod
    <3>2. pod' \in Pod
      BY <1>5, <1>b, ConstantTypes, DeletedType DEF PodStarts, PodSucceeds, PodGone, PodFails,
         PodEvicted, PutPod, Pod
    <3>. QED
      BY <3>1, <3>2
  <2>2. registry' \in Flows
    BY <1>5, <1>b DEF PodStarts, PodSucceeds, PodGone, PodFails, PodEvicted, Pod
  <2>3. ClusterTypeOK'
    BY <1>5, <1>a, <2>1, <2>2 DEF PodStarts, PodSucceeds, PodGone, PodFails, PodEvicted,
       ClusterTypeOK, Deployment
  <2>4. faults' \in 0..MaxFaults
    <3>1. faults \in 0..MaxFaults
      BY <1>a DEF BudgetTypeOK
    <3>. QED
      BY <1>5, <1>a, <3>1, FaultType DEF PodStarts, PodSucceeds, PodGone, PodFails, PodEvicted
  <2>5. BudgetTypeOK' /\ WfTypeOK' /\ BuildTypeOK' /\ QueueTypeOK'
    BY <1>5, <1>a, <2>4 DEF PodStarts, PodSucceeds, PodGone, PodFails, PodEvicted, BudgetTypeOK,
       WfTypeOK, BuildTypeOK, QueueTypeOK
  <2>. QED
    BY <1>5, <1>a, <2>3, <2>5 DEF PodStarts, PodSucceeds, PodGone, PodFails, PodEvicted, TypeOK
<1>6. CASE DeploymentPodsStart \/ DeploymentDegrades \/ DeploymentDeleted
  <2>1. deploy' \in Deployment
    BY <1>6, <1>b, ConstantTypes DEF DeploymentPodsStart, DeploymentDegrades, DeploymentDeleted,
       Deployment
  <2>2. ClusterTypeOK' /\ QueueTypeOK'
    BY <1>6, <1>a, <2>1 DEF DeploymentPodsStart, DeploymentDegrades, DeploymentDeleted, Enqueue,
       ClusterTypeOK, QueueTypeOK
  <2>3. faults' \in 0..MaxFaults
    <3>1. faults \in 0..MaxFaults
      BY <1>a DEF BudgetTypeOK
    <3>. QED
      BY <1>6, <1>a, <3>1, FaultType DEF DeploymentPodsStart, DeploymentDegrades, DeploymentDeleted
  <2>4. BudgetTypeOK' /\ WfTypeOK' /\ BuildTypeOK'
    BY <1>6, <1>a, <2>3 DEF DeploymentPodsStart, DeploymentDegrades, DeploymentDeleted,
       BudgetTypeOK, WfTypeOK, BuildTypeOK
  <2>. QED
    BY <1>6, <1>a, <2>2, <2>4 DEF DeploymentPodsStart, DeploymentDegrades, DeploymentDeleted, TypeOK
<1>7. CASE UserEdits
  <2>1. [wf EXCEPT !.flow = @ + 1] \in Workflow
    <3>1. wf \in Workflow /\ wf.flow \in 0..MaxFlow /\ wf.flow < MaxFlow
      BY <1>7, <1>a DEF UserEdits, WfTypeOK, Workflow, Flows
    <3>2. wf.flow + 1 \in Flows
      BY <3>1, BoundsAssumption DEF BoundsAssumption, Flows
    <3>. QED
      BY <3>1, <3>2 DEF Workflow
  <2>2. WfTypeOK' /\ wk' \in WorkflowRequest
    BY <1>7, <1>a, <2>1, PutWfType, StaleTypes DEF UserEdits
  <2>. QED
    BY <1>7, <1>a, <2>2 DEF UserEdits, TypeOK, BuildTypeOK, QueueTypeOK, ClusterTypeOK, BudgetTypeOK
<1>8. CASE UserRestarts
  <2>1. [build EXCEPT !.restart = TRUE] \in Build
    BY <1>a DEF BuildTypeOK, Build
  <2>2. BuildTypeOK' /\ wk' \in WorkflowRequest /\ bk' \in BuildRequest
    BY <1>8, <1>a, <2>1, PutBuildType, StaleTypes DEF UserRestarts
  <2>3. BudgetTypeOK'
    BY <1>8, <1>a, BoundsAssumption DEF BoundsAssumption, UserRestarts, BudgetTypeOK
  <2>. QED
    BY <1>8, <1>a, <2>2, <2>3 DEF UserRestarts, TypeOK, WfTypeOK, QueueTypeOK, ClusterTypeOK
<1>9. CASE DeliverPod
  BY <1>9, <1>a DEF DeliverPod, TypeOK, WfTypeOK, BuildTypeOK, QueueTypeOK, ClusterTypeOK,
     BudgetTypeOK
<1>. QED
  BY <1>1, <1>2, <1>3, <1>4, <1>5, <1>6, <1>7, <1>8, <1>9 DEF Environment

\* So does every step of the specification.
LEMMA TypeInductive == TypeOK /\ [Next]_vars => TypeOK'
<1>1. ASSUME TypeOK, UNCHANGED vars PROVE TypeOK'
  BY <1>1 DEF vars, wfVars, buildVars, clusterVars, podVars, budgetVars, TypeOK, WfTypeOK, BuildTypeOK,
     QueueTypeOK, ClusterTypeOK, BudgetTypeOK
<1>. QED
  BY <1>1, WorkflowControllerType, BuildControllerType, EnvironmentType DEF Next

\* The initial state is typed.
LEMMA TypeInit == Init => TypeOK
<1>. SUFFICES ASSUME Init PROVE TypeOK
  OBVIOUS
<1>1. WfTypeOK /\ BuildTypeOK
  BY ConstantTypes DEF Init, WfTypeOK, BuildTypeOK
<1>2. wk \in WorkflowRequest /\ bk \in BuildRequest
  BY ConstantTypes DEF Init
<1>3. QueueTypeOK /\ ClusterTypeOK
  BY ConstantTypes DEF Init, QueueTypeOK, ClusterTypeOK
<1>4. BudgetTypeOK
  BY BoundsAssumption DEF BoundsAssumption, Init, BudgetTypeOK
<1>. QED
  BY <1>1, <1>2, <1>3, <1>4 DEF TypeOK

\* Type correctness of the preview profile, for every bound, set of faults
\* and kind of cache.
THEOREM TypeCorrect == Spec => []TypeOK
BY TypeInit, TypeInductive, PTL DEF Spec
=============================================================================
