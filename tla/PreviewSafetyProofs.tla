------------------------- MODULE PreviewSafetyProofs -------------------------
(***************************************************************************)
(* Four safety properties of PreviewProfile, for every bound, set of       *)
(* faults and kind of cache: a status the operator has written can always  *)
(* be reconciled, a workflow is reported as built only after an image of   *)
(* it has been pushed, a build that has succeeded has pushed its own build *)
(* context, and the image of a settled workflow is the one of its flow, if *)
(* flows are not edited while a build is under way.  None is inductive:    *)
(* what a reconciler writes comes from the copies it read some steps ago   *)
(* and from the build the other one wrote, which comes from the builder    *)
(* pod, which comes from the build context.  The invariants follow that    *)
(* chain.  From the last of them follows also that the build implements    *)
(* BuildLifecycle.  The last two theorems say when the exception that the  *)
(* third and fourth property and the lifecycle make, an earlier builder    *)
(* pod that the pod cache had not seen, does not occur.                    *)
(***************************************************************************)
EXTENDS PreviewProofs, ContainerBuild

\* The reasons a state of the profile accepts for a workflow not built.
BuiltReasons == {"WaitingForPlatform", "BuildFailed", "BuildIsRunning"}

\* A status persisted or cached while the registry holds image r.
CondsOK(c, r) ==
  /\ IsFalse(c["Built"]) => c["Built"].reason \in BuiltReasons
  /\ IsTrue(c["Built"]) => r # 0
  /\ c["Built"] = NilCond => ~IsTrue(c["Running"])

\* A status in the hands of the workflow reconciler has been initialized.
MarkedOK(c, r) == CondsOK(c, r) /\ c["Built"] # NilCond

\* A build persisted, cached or in the hands of the build reconciler.
BuildOK(b) ==
  /\ b.phase = "Succeeded" => registry # 0
  /\ b.phase \notin {"absent", "None"} => ctx # 0

\* The statuses on the server, in the cache and in the request.
StatusInv ==
  /\ CondsOK(wf.conds, registry) /\ CondsOK(wfCache.conds, registry)
  /\ wf.flow # 0 /\ wfCache.flow # 0
  /\ wk.pc # "idle" => MarkedOK(wk.conds, registry)
  /\ wk.pc = "rollout" => registry # 0

\* The build on the server, in the cache and in the request.
BuildInv == BuildOK(build) /\ BuildOK(buildCache) /\ BuildOK(bk.build)

\* How far the builder pod has got, and what the cache says of it.
PodInv ==
  /\ pod.state # "none" => ctx # 0
  /\ pod.state = "Running" => pod.bits # 0
  /\ pod.state = "Succeeded" \/ podCache.state = "Succeeded" => registry # 0

\* A build is initialized with its build context written.
ContextWritten == bk.pc = "initialize" => ctx # 0

\* The invariant of the first two theorems.
IInv == TypeOK /\ StatusInv /\ BuildInv /\ ContextWritten /\ PodInv

-----------------------------------------------------------------------------
(* Who changes what.                                                       *)

\* No step of the workflow reconciler touches the build context, the builder
\* pod or the registry, nor the caches and the build reconciler's copy.
LEMMA WorkflowFrame ==
  ASSUME WorkflowController
  PROVE  UNCHANGED <<ctx, pod, podCache, overlooked, registry, wfCache, buildCache>>
<1>. USE DEF wfVars, buildVars, clusterVars, podVars, budgetVars
<1>1. CASE WfStart \/ WfNoPlatform \/ NewBuilderProps \/ FollowRollout \/ DeployObjects
           \/ DeployObjectsErr \/ DeploySync
  BY <1>1 DEF WfStart, WfNoPlatform, NewBuilderProps, FollowRollout, DeployObjects,
     DeployObjectsErr, DeploySync
<1>2. CASE NewBuilderUpdate \/ DeployObjectsFailed \/ DeployFinish \/ WfFinish
  BY <1>2 DEF NewBuilderUpdate, DeployObjectsFailed, DeployFinish, WfFinish, PutWf
<1>3. CASE NewBuilderBuild \/ FollowBuild \/ DeployCheck
  BY <1>3 DEF NewBuilderBuild, FollowBuild, DeployCheck, GetOrCreateBuild, GetOrCreateBuildErr,
     PutBuild
<1>4. CASE DeployRestart
  BY <1>4 DEF DeployRestart, PutBuild
<1>. QED
  BY <1>1, <1>2, <1>3, <1>4 DEF WorkflowController

\* Of the build reconciler's steps only Schedule writes the build context and
\* only the actions of the container builder touch the builder pod, and they
\* on the server.
LEMMA BuildFrame ==
  ASSUME BuildController
  PROVE  /\ BkInitialize \/ BkReconcile \/ UNCHANGED <<pod, overlooked>>
         /\ BkSchedule \/ UNCHANGED ctx
         /\ UNCHANGED <<registry, wfCache, buildCache, podCache>>
<1>. USE DEF wfVars, buildVars, clusterVars, podVars, budgetVars
<1>1. CASE BkStart \/ BkSchedule \/ BkScheduleStatus \/ BkAnnotation \/ BkSignal
           \/ BkReconcileStatus
  BY <1>1 DEF BkStart, BkSchedule, BkInitialize, BkScheduleStatus, BkAnnotation, BkSignal,
     BkReconcileStatus, PutBuild, PutWf
<1>2. CASE BkInitialize
  BY <1>2 DEF BkInitialize, InitializePod, PutPod
<1>3. CASE BkReconcile
  BY <1>3 DEF BkReconcile, WaitForPod, ScheduleBuild, MonitorPod, InitializePod, PutPod
<1>. QED
  BY <1>1, <1>2, <1>3 DEF BuildController

\* What the container builder does to the builder pod: it deletes it, or it
\* creates one where there is none, for a build with a context.
LEMMA PodWrites ==
  ASSUME BkInitialize \/ BkReconcile
  PROVE  \/ UNCHANGED <<pod, overlooked>>
         \/ pod' = Deleted
         \/ /\ BkReconcile /\ bk.build.phase = "Pending"
            /\ pod.state = "none" /\ PodSeenGone
            /\ pod' = [NoPod EXCEPT !.state = "Pending"]
            /\ UNCHANGED overlooked
<1>1. CASE BkInitialize
  BY <1>1 DEF BkInitialize, InitializePod, PutPod, podVars
<1>2. CASE BkReconcile
  BY <1>2 DEF BkReconcile, WaitForPod, ScheduleBuild, MonitorPod, InitializePod, PutPod,
     CanCreatePod, podVars
<1>. QED
  BY <1>1, <1>2

\* Neither an image in the registry nor a build context is ever taken away.
LEMMA RegistryKept ==
  ASSUME IInv, [Next]_vars
  PROVE  (registry # 0 => registry' # 0) /\ (ctx # 0 => ctx' # 0)
<1>. USE DEF wfVars, buildVars, clusterVars, podVars, budgetVars
<1>1. CASE UNCHANGED vars
  BY <1>1 DEF vars
<1>2. CASE WorkflowController
  BY <1>2, WorkflowFrame
<1>3. CASE BuildController
  BY <1>3, BuildFrame DEF BkSchedule, IInv, StatusInv
<1>4. CASE Environment
  BY <1>4 DEF IInv, PodInv, Environment, DeliverWf, DeliverBuild, DeliverPod, Resync,
     OperatorRestart, PodStarts, PodSucceeds, PodFails, PodEvicted, PodGone, DeploymentPodsStart,
     DeploymentDegrades, DeploymentDeleted, UserEdits, UserRestarts
<1>. QED
  BY <1>1, <1>2, <1>3, <1>4 DEF Next

-----------------------------------------------------------------------------
(* The builder pod.                                                        *)

\* A builder pod has a build context, one that runs compiles it and one that
\* has succeeded has pushed an image.
LEMMA PodStep ==
  ASSUME IInv, [Next]_vars
  PROVE  PodInv'
<1>. USE DEF wfVars, buildVars, clusterVars, podVars, budgetVars
<1>a. pod \in Pod /\ PodInv /\ BuildOK(bk.build)
  BY DEF IInv, TypeOK, ClusterTypeOK, BuildInv
<1>b. (registry # 0 => registry' # 0) /\ (ctx # 0 => ctx' # 0)
  BY RegistryKept
<1>c. ASSUME UNCHANGED pod, podCache' \in {podCache, pod} PROVE PodInv'
  BY <1>a, <1>b, <1>c DEF PodInv
<1>d. ASSUME pod' = Deleted, UNCHANGED podCache PROVE PodInv'
  BY <1>a, <1>b, <1>d DEF PodInv, Deleted, Pod
<1>1. CASE UNCHANGED vars
  BY <1>1, <1>c DEF vars
<1>2. CASE WorkflowController
  BY <1>2, <1>c, WorkflowFrame
<1>3. CASE BuildController
  <2>1. UNCHANGED podCache
    BY <1>3, BuildFrame
  <2>2. ASSUME pod' = [NoPod EXCEPT !.state = "Pending"], bk.build.phase = "Pending"
        PROVE  PodInv'
    BY <2>1, <2>2, <1>a, <1>b DEF PodInv, BuildOK, NoPod
  <2>. QED
    BY <1>3, <1>c, <1>d, <2>1, <2>2, BuildFrame, PodWrites
<1>4. CASE PodStarts
  BY <1>4, <1>a DEF PodStarts, PutPod, PodInv, Pod
<1>5. CASE PodSucceeds
  BY <1>5, <1>a DEF PodSucceeds, PutPod, PodInv, Pod
<1>6. CASE PodFails \/ PodGone
  BY <1>6, <1>a DEF PodFails, PodGone, PutPod, PodInv, Pod, NoPod
<1>7. CASE PodEvicted
  BY <1>7, <1>d DEF PodEvicted, PutPod
<1>8. CASE Environment /\ UNCHANGED pod /\ podCache' \in {podCache, pod}
  BY <1>8, <1>c
<1>9. CASE Environment
  BY <1>4, <1>5, <1>6, <1>7, <1>8, <1>9 DEF Environment, DeliverWf, DeliverBuild, DeliverPod,
     Resync, OperatorRestart, DeploymentPodsStart, DeploymentDegrades, DeploymentDeleted,
     UserEdits, UserRestarts
<1>. QED
  BY <1>1, <1>2, <1>3, <1>9 DEF Next

-----------------------------------------------------------------------------
(* The build.                                                              *)

\* Every copy of a build that has got past its empty phase has a build
\* context, and every copy that has succeeded has an image.
LEMMA BuildStep ==
  ASSUME IInv, [Next]_vars
  PROVE  BuildInv'
<1>. USE DEF wfVars, buildVars, clusterVars, podVars, budgetVars
<1>a. /\ BuildOK(build) /\ BuildOK(buildCache) /\ BuildOK(bk.build)
      /\ build \in Build /\ buildCache \in Build /\ bk \in BuildRequest /\ bk.build \in Build
  BY DEF IInv, TypeOK, BuildTypeOK, BuildInv, BuildRequest
<1>b. (registry # 0 => registry' # 0) /\ (ctx # 0 => ctx' # 0)
  BY RegistryKept
<1>c. ASSUME NEW b, BuildOK(b)
      PROVE  /\ b.phase = "Succeeded" => registry' # 0
             /\ b.phase \notin {"absent", "None"} => ctx' # 0
  BY <1>b, <1>c DEF BuildOK
<1>d. ASSUME \/ build' = build \/ build' = buildCache \/ build' = bk.build
             \/ build'.phase \in {"absent", "None"} \/ build'.phase = build.phase
             \/ build'.phase = bk.build.phase
      PROVE  BuildOK(build)'
  BY <1>a, <1>c, <1>d DEF BuildOK
<1>e. ASSUME buildCache' = build \/ buildCache' = buildCache
      PROVE  BuildOK(buildCache)'
  BY <1>a, <1>c, <1>e DEF BuildOK
<1>f. ASSUME bk'.build = bk.build \/ bk' = IdleBuild \/ bk'.build = buildCache
             \/ bk'.build.phase = bk.build.phase
      PROVE  BuildOK(bk.build)'
  BY <1>a, <1>c, <1>f DEF BuildOK, IdleBuild, NoBuild
<1>1. CASE UNCHANGED vars
  BY <1>1, <1>d, <1>e, <1>f DEF vars, BuildInv
<1>2. CASE WorkflowController
  <2>1. build' = build \/ build'.phase \in {"absent", "None"}
    <3>1. [build EXCEPT !.phase = "None"].phase = "None" /\ NewBuild.phase = "None"
      BY <1>a DEF Build, NewBuild, NoBuild
    <3>. QED
      BY <1>2, <3>1 DEF WorkflowController, WfStart, WfNoPlatform, NewBuilderProps, FollowRollout,
         DeployObjects, DeployObjectsErr, DeploySync, NewBuilderUpdate, DeployObjectsFailed,
         DeployFinish, WfFinish, NewBuilderBuild, FollowBuild, DeployCheck, GetOrCreateBuild,
         GetOrCreateBuildErr, DeployRestart, PutBuild
  <2>2. bk'.build = bk.build
    BY <1>2, <1>a DEF WorkflowController, WfStart, WfNoPlatform, NewBuilderProps, FollowRollout,
       DeployObjects, DeployObjectsErr, DeploySync, NewBuilderUpdate, DeployObjectsFailed,
       DeployFinish, WfFinish, NewBuilderBuild, FollowBuild, DeployCheck, DeployRestart, StaleBk,
       BuildRequest
  <2>. QED
    BY <1>2, <1>d, <1>e, <1>f, <2>1, <2>2, WorkflowFrame DEF BuildInv
<1>3. CASE BkStart
  <2>1. bk' = bk \/ bk'.build = buildCache
    BY <1>3 DEF BkStart, IdleBuild
  <2>. QED
    BY <1>3, <1>d, <1>e, <1>f, <2>1 DEF BkStart, BuildInv
<1>4. CASE BkSchedule
  <2>1. bk' = IdleBuild \/ bk'.build = bk.build
    BY <1>4, <1>a DEF BkSchedule, BkReturn, BuildRequest
  <2>. QED
    BY <1>4, <1>d, <1>e, <1>f, <2>1 DEF BkSchedule, BuildInv
<1>11. CASE BkInitialize
  <2>1. CASE BkReturn(TRUE)
    BY <1>11, <2>1, <1>d, <1>e, <1>f DEF BkInitialize, BkReturn, BuildInv
  <2>2. ASSUME NEW gone \in BOOLEAN,
               bk' = [bk EXCEPT !.pc = "scheduleStatus",
                                !.build.phase = IF gone THEN "Scheduling" ELSE "Initialization"]
        PROVE  BuildInv'
    <3>1. bk'.build.phase \in {"Scheduling", "Initialization"}
      BY <2>2, <1>a DEF BuildRequest, Build
    <3>2. ctx # 0 /\ UNCHANGED ctx
      BY <1>11 DEF BkInitialize, IInv, ContextWritten
    <3>3. BuildOK(bk.build)'
      BY <3>1, <3>2 DEF BuildOK
    <3>. QED
      BY <1>11, <3>3, <1>d, <1>e DEF BkInitialize, BuildInv
  <2>. QED
    BY <1>11, <2>1, <2>2 DEF BkInitialize
<1>5. CASE BkScheduleStatus
  <2>1. build' = build \/ build' = bk.build
    BY <1>5 DEF BkScheduleStatus, PutBuild
  <2>2. bk' = IdleBuild \/ bk'.build = bk.build
    BY <1>5, <1>a DEF BkScheduleStatus, BkReturn, BuildRequest
  <2>. QED
    BY <1>5, <1>d, <1>e, <1>f, <2>1, <2>2, BuildFrame DEF BuildController, BuildInv
<1>6. CASE BkAnnotation
  <2>1. AnnotationCleared(bk.build).phase = bk.build.phase
    BY <1>a DEF AnnotationCleared, Build
  <2>2. build' = build \/ build'.phase = bk.build.phase
    BY <1>6, <2>1 DEF BkAnnotation, PutBuild
  <2>3. bk' = IdleBuild \/ bk'.build.phase = bk.build.phase
    BY <1>6, <1>a, <2>1 DEF BkAnnotation, BkReturn, BuildRequest
  <2>. QED
    BY <1>6, <1>d, <1>e, <1>f, <2>2, <2>3, BuildFrame DEF BuildController, BuildInv
<1>7. CASE BkSignal
  BY <1>7, <1>d, <1>e, <1>f DEF BkSignal, BkReturn, BuildInv
<1>8. CASE BkReconcile
  <2>1. CASE BkReturn(TRUE)
    BY <1>8, <2>1, <1>d, <1>e, <1>f DEF BkReconcile, BkReturn, BuildInv
  <2>2. ASSUME NEW phase \in Phases,
               \/ WaitForPod(phase) \/ ScheduleBuild(phase) \/ MonitorPod(phase)
               \/ bk.build.phase = "Interrupted" /\ phase = "Interrupted" /\ UNCHANGED podVars,
               bk' = [bk EXCEPT !.pc = "reconcileStatus", !.build.phase = phase,
                                !.build.image = (phase = "Succeeded")]
        PROVE  BuildInv'
    <3>1. bk'.build.phase = phase
      BY <2>2, <1>a DEF BuildRequest, Build
    <3>2. ctx' # 0
      BY <2>2, <1>a, <1>b DEF WaitForPod, ScheduleBuild, MonitorPod, BuildOK
    <3>3. phase = "Succeeded" => registry' # 0
      BY <2>2, <1>a, <1>b DEF WaitForPod, ScheduleBuild, MonitorPod, MonitoredPhases, BuildOK,
         IInv, PodInv
    <3>4. BuildOK(bk.build)'
      BY <3>1, <3>2, <3>3 DEF BuildOK
    <3>. QED
      BY <1>8, <3>4, <1>d, <1>e DEF BkReconcile, BuildInv
  <2>. QED
    BY <1>8, <2>1, <2>2 DEF BkReconcile
<1>9. CASE BkReconcileStatus
  <2>1. build' = build \/ build' = bk.build
    BY <1>9 DEF BkReconcileStatus, PutBuild
  <2>. QED
    BY <1>9, <1>d, <1>e, <1>f, <2>1, BuildFrame DEF BuildController, BkReconcileStatus, BkReturn,
       BuildInv
<1>10. CASE Environment
  <2>1. build' = build \/ build'.phase = build.phase
    BY <1>10, <1>a DEF Environment, DeliverWf, DeliverBuild, DeliverPod, Resync,
       OperatorRestart, PodStarts, PodSucceeds, PodFails, PodEvicted, PodGone,
       DeploymentPodsStart, DeploymentDegrades, DeploymentDeleted, UserEdits, UserRestarts,
       PutBuild, Build
  <2>2. buildCache' = build \/ buildCache' = buildCache
    BY <1>10 DEF Environment, DeliverWf, DeliverBuild, DeliverPod, Resync,
       OperatorRestart, PodStarts, PodSucceeds, PodFails, PodEvicted, PodGone,
       DeploymentPodsStart, DeploymentDegrades, DeploymentDeleted, UserEdits, UserRestarts,
       PutBuild
  <2>3. bk' = IdleBuild \/ bk'.build = bk.build
    BY <1>10, <1>a DEF Environment, DeliverWf, DeliverBuild, DeliverPod, Resync,
       OperatorRestart, PodStarts, PodSucceeds, PodFails, PodEvicted, PodGone,
       DeploymentPodsStart, DeploymentDegrades, DeploymentDeleted, UserEdits, UserRestarts,
       StaleBk, BuildRequest
  <2>. QED
    BY <1>d, <1>e, <1>f, <2>1, <2>2, <2>3 DEF BuildInv
<1>. QED
  BY <1>1, <1>2, <1>3, <1>4, <1>5, <1>6, <1>7, <1>8, <1>9, <1>10, <1>11 DEF Next, BuildController

\* Schedule writes the build context before it initializes the build.
LEMMA ContextWrittenStep ==
  ASSUME IInv, [Next]_vars
  PROVE  ContextWritten'
<1>. USE DEF wfVars, buildVars, clusterVars, podVars, budgetVars
<1>a. bk \in BuildRequest /\ ContextWritten /\ wfCache.flow # 0
  BY DEF IInv, TypeOK, StatusInv
<1>b. ctx # 0 => ctx' # 0
  BY RegistryKept
<1>c. ASSUME bk'.pc = bk.pc \/ bk'.pc # "initialize" PROVE ContextWritten'
  BY <1>a, <1>b, <1>c DEF ContextWritten
<1>d. IdleBuild.pc = "idle"
  BY DEF IdleBuild
<1>1. CASE UNCHANGED vars
  BY <1>1, <1>c DEF vars
<1>2. CASE WorkflowController
  BY <1>2, <1>a, <1>c DEF WorkflowController, WfStart, WfNoPlatform, NewBuilderProps, FollowRollout,
     DeployObjects, DeployObjectsErr, DeploySync, NewBuilderUpdate, DeployObjectsFailed,
     DeployFinish, WfFinish, NewBuilderBuild, FollowBuild, DeployCheck, DeployRestart, StaleBk,
     BuildRequest
<1>3. CASE BkSchedule
  BY <1>3, <1>a, <1>c, <1>d DEF BkSchedule, BkReturn, ContextWritten
<1>4. CASE BkStart
  BY <1>4, <1>c DEF BkStart, IdleBuild
<1>5. CASE BkInitialize \/ BkScheduleStatus \/ BkAnnotation \/ BkSignal \/ BkReconcile
           \/ BkReconcileStatus
  BY <1>5, <1>a, <1>c, <1>d DEF BkInitialize, BkScheduleStatus, BkAnnotation, BkSignal, BkReconcile,
     BkReconcileStatus, BkReturn, BuildRequest
<1>6. CASE Environment
  BY <1>6, <1>a, <1>c, <1>d DEF Environment, DeliverWf, DeliverBuild, DeliverPod, Resync,
     OperatorRestart, PodStarts, PodSucceeds, PodFails, PodEvicted, PodGone, DeploymentPodsStart,
     DeploymentDegrades, DeploymentDeleted, UserEdits, UserRestarts, StaleBk, BuildRequest
<1>. QED
  BY <1>1, <1>2, <1>3, <1>4, <1>5, <1>6 DEF Next, BuildController

-----------------------------------------------------------------------------
(* The status of the workflow.                                             *)

\* A condition that is set is not the nil one.
LEMMA CondFacts ==
  ASSUME NEW status, NEW reason
  PROVE  /\ Cond(status, reason).status = status
         /\ Cond(status, reason).reason = reason
         /\ status # "nil" => Cond(status, reason) # NilCond
<1>1. Cond(status, reason).status = status /\ Cond(status, reason).reason = reason
  BY DEF Cond
<1>2. NilCond.status = "nil"
  BY DEF NilCond, Cond
<1>. QED
  BY <1>1, <1>2

\* InitializeConditions makes a persisted status one a reconciler works on.
LEMMA InitializedOK ==
  ASSUME NEW c \in ConditionMap, NEW r, CondsOK(c, r)
  PROVE  MarkedOK(Initialized(c), r)
<1>1. /\ Initialized(c)["Built"] =
           IF c["Built"] # NilCond THEN c["Built"]
           ELSE Cond(IF IsTrue(c["Running"]) THEN "True" ELSE "Unknown", "")
      /\ c["Built"] # NilCond => Initialized(c)["Built"] = c["Built"]
  BY DEF Initialized, InitializeConditions, ConditionMap
<1>2. c["Built"] = NilCond => Initialized(c)["Built"] = Cond("Unknown", "")
  BY <1>1 DEF CondsOK
<1>3. Cond("Unknown", "").status = "Unknown" /\ Cond("Unknown", "") # NilCond
  BY CondFacts
<1>4. CASE c["Built"] = NilCond
  BY <1>2, <1>3, <1>4 DEF MarkedOK, CondsOK, IsFalse, IsTrue
<1>5. CASE c["Built"] # NilCond
  BY <1>1, <1>5 DEF MarkedOK, CondsOK
<1>. QED
  BY <1>4, <1>5

\* The marks the handlers put on a status keep it so.
LEMMA MarksOK ==
  ASSUME NEW c \in ConditionMap, NEW r, MarkedOK(c, r)
  PROVE  /\ \A reason \in BuiltReasons : MarkedOK(MarkFalse(c, "Built", reason), r)
         /\ \A reason \in Reasons : MarkedOK(MarkFalse(c, "Running", reason), r)
         /\ MarkedOK(MarkTrue(c, "Running"), r)
         /\ r # 0 => MarkedOK(MarkTrue(c, "Built"), r)
         /\ MarkedOK(MarkUnknown(c, "Running", {"Built"}, "Running", ""), r)
<1>1. ASSUME NEW d, NEW x, d = SetCondition(c, "Running", x)
      PROVE  MarkedOK(d, r)
  <2>1. d["Built"] = c["Built"]
    BY <1>1 DEF SetCondition, ConditionMap
  <2>. QED
    BY <2>1 DEF MarkedOK, CondsOK
<1>2. ASSUME NEW reason \in BuiltReasons
      PROVE  MarkedOK(MarkFalse(c, "Built", reason), r)
  <2>1. MarkFalse(c, "Built", reason)["Built"] = Cond("False", reason)
    BY DEF MarkFalse, SetCondition, ConditionMap
  <2>. QED
    BY <2>1, CondFacts DEF MarkedOK, CondsOK, IsFalse, IsTrue
<1>3. ASSUME NEW reason \in Reasons
      PROVE  MarkedOK(MarkFalse(c, "Running", reason), r)
  BY <1>1 DEF MarkFalse
<1>4. MarkedOK(MarkTrue(c, "Running"), r)
  BY <1>1 DEF MarkTrue
<1>5. ASSUME r # 0 PROVE MarkedOK(MarkTrue(c, "Built"), r)
  <2>1. MarkTrue(c, "Built")["Built"] = Cond("True", "")
    BY DEF MarkTrue, SetCondition, ConditionMap
  <2>2. Cond("True", "").status = "True" /\ Cond("True", "") # NilCond
    BY CondFacts
  <2>. QED
    BY <1>5, <2>1, <2>2 DEF MarkedOK, CondsOK, IsFalse, IsTrue
<1>6. MarkedOK(MarkUnknown(c, "Running", {"Built"}, "Running", ""), r)
  <2>1. MarkUnknown(c, "Running", {"Built"}, "Running", "")["Built"] = c["Built"]
    BY DEF MarkUnknown, MarkFalse, SetCondition, ConditionMap
  <2>. QED
    BY <2>1 DEF MarkedOK, CondsOK
<1>. QED
  BY <1>2, <1>3, <1>4, <1>5, <1>6

\* Every step of the workflow reconciler leaves it with a status it may write.
LEMMA RequestStep ==
  ASSUME IInv, WorkflowController
  PROVE  /\ wk'.pc # "idle" => MarkedOK(wk'.conds, registry')
         /\ wk'.pc = "rollout" => registry' # 0
<1>. USE DEF wfVars, buildVars, clusterVars, podVars, budgetVars
<1>a. /\ wk \in WorkflowRequest /\ wk.conds \in ConditionMap
      /\ wk.pc # "idle" => MarkedOK(wk.conds, registry)
      /\ BuildOK(buildCache)
  BY DEF IInv, TypeOK, StatusInv, BuildInv, WorkflowRequest
<1>b. registry' = registry
  BY WorkflowFrame
<1>c. ASSUME wk' = IdleWf PROVE wk'.pc = "idle"
  BY <1>c DEF IdleWf
<1>d. ASSUME NEW conds, NEW pc, WfGoto(pc, conds) PROVE wk'.conds = conds /\ wk'.pc = pc
  BY <1>a, <1>d DEF WfGoto, WorkflowRequest
<1>e. ASSUME NEW conds, NEW requeue, WfFinishWith(conds, requeue)
      PROVE  wk'.conds = conds /\ wk'.pc = "finish"
  BY <1>a, <1>e DEF WfFinishWith, WorkflowRequest
<1>f. ASSUME NEW conds, DeployFinishWith(conds)
      PROVE  wk'.conds = conds /\ wk'.pc = "deployFinish"
  BY <1>a, <1>f DEF DeployFinishWith, WorkflowRequest
<1>g. \A reason \in {"WaitingForBuild", "WaitingForDeployment", "ExternalResourcesNotFound",
                     "DeploymentFailure", "DeploymentUnavailable"} :
        wk.pc # "idle" => MarkedOK(MarkFalse(wk.conds, "Running", reason), registry)
  BY <1>a, MarksOK DEF Reasons
<1>h. \A reason \in BuiltReasons :
        wk.pc # "idle" => MarkedOK(MarkFalse(wk.conds, "Built", reason), registry)
  BY <1>a, MarksOK
<1>i. "BuildIsRunning" \in BuiltReasons /\ "BuildFailed" \in BuiltReasons
      /\ "WaitingForPlatform" \in BuiltReasons
  BY DEF BuiltReasons
<1>j. ASSUME DeployFailed, wk.pc # "idle"
      PROVE  MarkedOK(wk'.conds, registry) /\ wk'.pc = "finish"
  BY <1>e, <1>g, <1>j DEF DeployFailed
<1>1. CASE WfStart
  <2>1. wfCache.conds \in ConditionMap /\ CondsOK(wfCache.conds, registry)
    BY DEF IInv, TypeOK, WfTypeOK, Workflow, StatusInv
  <2>2. MarkedOK(Initialized(wfCache.conds), registry)
    BY <2>1, InitializedOK
  <2>3. /\ wk'.conds = Initialized(wfCache.conds)
        /\ wk'.pc = Dispatch(Initialized(wfCache.conds))
    BY <1>1 DEF WfStart, IdleWf
  <2>. QED
    BY <1>b, <2>2, <2>3 DEF Dispatch
<1>2. CASE WfNoPlatform
  BY <1>2, <1>b, <1>c, <1>e, <1>h, <1>i DEF WfNoPlatform, WfReturn
<1>3. CASE NewBuilderUpdate
  BY <1>3, <1>a, <1>b, <1>d DEF NewBuilderUpdate
<1>4. CASE NewBuilderProps
  <2>1. CASE WfGoto("newBuilderBuild", wk.conds)
    BY <1>4, <2>1, <1>a, <1>b, <1>d DEF NewBuilderProps
  <2>2. CASE WfFinishWith(MarkFalse(wk.conds, "Running", "ExternalResourcesNotFound"), FALSE)
    <3>1. wk'.conds = MarkFalse(wk.conds, "Running", "ExternalResourcesNotFound")
          /\ wk'.pc = "finish"
      BY <2>2, <1>e
    <3>. QED
      BY <1>4, <1>b, <1>g, <3>1 DEF NewBuilderProps
  <2>. QED
    BY <1>4, <2>1, <2>2 DEF NewBuilderProps
<1>5. CASE NewBuilderBuild
  <2>1. MarkedOK(MarkFalse(MarkFalse(wk.conds, "Built", "BuildIsRunning"),
                           "Running", "WaitingForBuild"), registry)
    <3>1. MarkFalse(wk.conds, "Built", "BuildIsRunning") \in ConditionMap
      BY <1>a, MarkTypes DEF Reasons
    <3>2. MarkedOK(MarkFalse(wk.conds, "Built", "BuildIsRunning"), registry)
      BY <1>5, <1>h, <1>i DEF NewBuilderBuild
    <3>. QED
      BY <3>1, <3>2, MarksOK DEF Reasons
  <2>. QED
    BY <1>5, <1>b, <1>c, <1>e, <1>h, <1>i, <2>1 DEF NewBuilderBuild, WfReturn
<1>6. ASSUME wk.pc # "idle", registry # 0
      PROVE  MarkedOK(BuildFinished(wk.conds), registry)
  <2>1. MarkFalse(wk.conds, "Running", "WaitingForDeployment") \in ConditionMap
    BY <1>a, MarkTypes DEF Reasons
  <2>. QED
    BY <1>6, <1>g, <2>1, MarksOK DEF BuildFinished
<1>7. CASE FollowBuild
  <2>1. ASSUME NEW got \in {buildCache, NewBuild}, got.phase = "Succeeded"
        PROVE  registry # 0
    BY <1>a, <2>1 DEF BuildOK, NewBuild, NoBuild
  <2>. QED
    BY <1>7, <1>a, <1>b, <1>c, <1>d, <1>e, <1>h, <1>i, <1>6, <2>1 DEF FollowBuild, WfReturn
<1>8. CASE FollowRollout
  <2>1. registry # 0
    BY <1>8 DEF FollowRollout, IInv, StatusInv
  <2>. QED
    BY <1>8, <1>b, <1>c, <1>e, <1>6, <2>1 DEF FollowRollout, WfReturn
<1>9. CASE DeployCheck
  <2>1. wk' = IdleWf \/ (wk'.conds = wk.conds /\ wk'.pc \in {"restart", "objects"})
    <3>1. ASSUME NEW got, NEW fresh,
                 wk' = [wk EXCEPT !.pc = IF IsWorkflowChanged(wk) THEN "restart" ELSE "objects",
                                  !.build = got, !.buildFresh = fresh]
          PROVE  wk'.conds = wk.conds /\ wk'.pc \in {"restart", "objects"}
      BY <3>1, <1>a DEF WorkflowRequest
    <3>. QED
      BY <1>9, <3>1 DEF DeployCheck, WfReturn
  <2>. QED
    BY <1>9, <1>a, <1>b, <1>c, <2>1 DEF DeployCheck
<1>10. CASE DeployRestart
  <2>1. MarkFalse(wk.conds, "Built", "BuildIsRunning") \in ConditionMap
    BY <1>a, MarkTypes DEF Reasons
  <2>2. MarkedOK(MarkFalse(wk.conds, "Built", "BuildIsRunning"), registry)
    BY <1>10, <1>h, <1>i DEF DeployRestart
  <2>3. MarkedOK(MarkUnknown(MarkFalse(wk.conds, "Built", "BuildIsRunning"),
                             "Running", {"Built"}, "Running", ""), registry)
    BY <2>1, <2>2, MarksOK
  <2>. QED
    BY <1>10, <1>b, <1>c, <1>e, <2>3 DEF DeployRestart, WfReturn
<1>11. CASE DeployObjects
  BY <1>11, <1>a, <1>b, <1>d, <1>f, <1>g DEF DeployObjects
<1>12. CASE DeployObjectsErr
  BY <1>12, <1>b, <1>d, <1>g, <1>j DEF DeployObjectsErr
<1>13. CASE DeployObjectsFailed
  BY <1>13, <1>b, <1>j DEF DeployObjectsFailed
<1>14. CASE DeploySync
  <2>1. MarkedOK(DeploymentCondition(wk.conds), registry)
    BY <1>14, <1>a, <1>g, MarksOK DEF DeploySync, DeploymentCondition
  <2>. QED
    BY <1>14, <1>b, <1>f, <1>j, <2>1 DEF DeploySync
<1>15. CASE DeployFinish
  BY <1>15, <1>b, <1>c, <1>j DEF DeployFinish, WfReturn
<1>16. CASE WfFinish
  BY <1>16, <1>c DEF WfFinish, WfReturn
<1>. QED
  BY <1>1, <1>2, <1>3, <1>4, <1>5, <1>7, <1>8, <1>9, <1>10, <1>11, <1>12, <1>13, <1>14, <1>15,
     <1>16 DEF WorkflowController

\* Every status persisted or cached stays one the profile accepts, with an
\* image behind it when it says built.
LEMMA StatusStep ==
  ASSUME IInv, [Next]_vars
  PROVE  StatusInv'
<1>. USE DEF wfVars, buildVars, clusterVars, podVars, budgetVars
<1>a. /\ StatusInv /\ wf \in Workflow /\ wfCache \in Workflow /\ wk \in WorkflowRequest
      /\ wfCache.conds \in ConditionMap
  BY DEF IInv, TypeOK, WfTypeOK, Workflow
<1>b. registry # 0 => registry' # 0
  BY RegistryKept
<1>c. ASSUME NEW c, CondsOK(c, registry) PROVE CondsOK(c, registry')
  BY <1>b, <1>c DEF CondsOK
<1>d. ASSUME NEW c, MarkedOK(c, registry) PROVE MarkedOK(c, registry')
  BY <1>c, <1>d DEF MarkedOK
<1>e. ASSUME \/ wf' = wf
             \/ /\ CondsOK(wf'.conds, registry)
                /\ wf'.flow # 0
      PROVE  CondsOK(wf'.conds, registry') /\ wf'.flow # 0
  BY <1>a, <1>c, <1>e DEF StatusInv
<1>f. ASSUME wfCache' = wfCache \/ wfCache' = wf
      PROVE  CondsOK(wfCache'.conds, registry') /\ wfCache'.flow # 0
  BY <1>a, <1>c, <1>f DEF StatusInv
<1>g. ASSUME \/ wk' = IdleWf
             \/ wk'.pc = wk.pc /\ wk'.conds = wk.conds
      PROVE  /\ wk'.pc # "idle" => MarkedOK(wk'.conds, registry')
             /\ wk'.pc = "rollout" => registry' # 0
  BY <1>a, <1>b, <1>d, <1>g DEF StatusInv, IdleWf
<1>1. CASE UNCHANGED vars
  BY <1>1, <1>e, <1>f, <1>g DEF vars, StatusInv
<1>2. CASE WorkflowController
  <2>1. \/ wf' = wf
        \/ wf' = StatusOf(wk) /\ wk.pc # "idle"
    BY <1>2 DEF WorkflowController, WfStart, WfNoPlatform, NewBuilderProps, FollowRollout,
       DeployObjects, DeployObjectsErr, DeploySync, NewBuilderUpdate, DeployObjectsFailed,
       DeployFinish, WfFinish, NewBuilderBuild, FollowBuild, DeployCheck, DeployRestart, PutWf
  <2>2. StatusOf(wk).conds = wk.conds /\ StatusOf(wk).flow = wf.flow
    BY <1>a DEF StatusOf, Workflow
  <2>3. CondsOK(wf'.conds, registry') /\ wf'.flow # 0
    BY <1>a, <1>e, <2>1, <2>2 DEF StatusInv, MarkedOK
  <2>. QED
    BY <1>2, <1>f, <2>3, WorkflowFrame, RequestStep DEF StatusInv
<1>3. CASE BuildController
  <2>1. \/ wf' = wf
        \/ wf' = [wfCache EXCEPT !.conds = MarkFalse(@, "Built", "BuildIsRunning")]
    BY <1>3 DEF BuildController, BkStart, BkSchedule, BkInitialize, BkScheduleStatus,
       BkAnnotation, BkSignal, BkReconcile, BkReconcileStatus, PutWf
  <2>2. [wfCache EXCEPT !.conds = MarkFalse(@, "Built", "BuildIsRunning")].conds
          = MarkFalse(wfCache.conds, "Built", "BuildIsRunning")
    BY <1>a DEF Workflow
  <2>3. [wfCache EXCEPT !.conds = MarkFalse(@, "Built", "BuildIsRunning")].flow = wfCache.flow
    BY <1>a DEF Workflow
  <2>4. CondsOK(MarkFalse(wfCache.conds, "Built", "BuildIsRunning"), registry)
    <3>1. MarkFalse(wfCache.conds, "Built", "BuildIsRunning")["Built"]
            = Cond("False", "BuildIsRunning")
      BY <1>a DEF MarkFalse, SetCondition, ConditionMap
    <3>. QED
      BY <3>1, CondFacts DEF CondsOK, IsTrue, IsFalse, BuiltReasons
  <2>5. CondsOK(wf'.conds, registry') /\ wf'.flow # 0
    BY <1>a, <1>e, <2>1, <2>2, <2>3, <2>4 DEF StatusInv
  <2>6. wk'.pc = wk.pc /\ wk'.conds = wk.conds
    BY <1>3, <1>a DEF BuildController, BkStart, BkSchedule, BkInitialize, BkScheduleStatus,
       BkAnnotation, BkSignal, BkReconcile, BkReconcileStatus, StaleWk, StaleWkBuild,
       WorkflowRequest
  <2>. QED
    BY <1>3, <1>f, <1>g, <2>5, <2>6, BuildFrame DEF StatusInv
<1>4. CASE Environment
  <2>1. wf' = wf \/ (wf'.conds = wf.conds /\ wf'.flow # 0)
    <3>1. [wf EXCEPT !.flow = @ + 1].conds = wf.conds /\ [wf EXCEPT !.flow = @ + 1].flow = wf.flow + 1
      BY <1>a DEF Workflow
    <3>2. wf.flow \in Nat
      BY <1>a, BoundsAssumption DEF BoundsAssumption, Workflow, Flows
    <3>3. CASE UserEdits
      BY <3>1, <3>2, <3>3 DEF UserEdits, PutWf
    <3>4. ASSUME ~UserEdits PROVE wf' = wf
      BY <1>4, <3>4 DEF Environment, DeliverWf, DeliverBuild, DeliverPod, Resync,
         OperatorRestart, PodStarts, PodSucceeds, PodFails, PodEvicted, PodGone,
         DeploymentPodsStart, DeploymentDegrades, DeploymentDeleted, UserRestarts
    <3>. QED
      BY <3>3, <3>4
  <2>2. wfCache' = wf \/ wfCache' = wfCache
    BY <1>4 DEF Environment, DeliverWf, DeliverBuild, DeliverPod, Resync,
       OperatorRestart, PodStarts, PodSucceeds, PodFails, PodEvicted, PodGone,
       DeploymentPodsStart, DeploymentDegrades, DeploymentDeleted, UserEdits, UserRestarts, PutWf
  <2>3. wk' = IdleWf \/ (wk'.pc = wk.pc /\ wk'.conds = wk.conds)
    <3>1. CASE UserEdits \/ UserRestarts
      BY <1>a, <3>1 DEF UserEdits, UserRestarts, StaleWk, StaleWkBuild, WorkflowRequest
    <3>2. ASSUME ~UserEdits, ~UserRestarts PROVE wk' = wk \/ wk' = IdleWf
      BY <1>4, <3>2 DEF Environment, DeliverWf, DeliverBuild, DeliverPod, Resync,
         OperatorRestart, PodStarts, PodSucceeds, PodFails, PodEvicted, PodGone,
         DeploymentPodsStart, DeploymentDegrades, DeploymentDeleted
    <3>. QED
      BY <3>1, <3>2
  <2>. QED
    BY <1>a, <1>e, <1>f, <1>g, <2>1, <2>2, <2>3 DEF StatusInv
<1>. QED
  BY <1>1, <1>2, <1>3, <1>4 DEF Next

-----------------------------------------------------------------------------
(* The theorems.                                                           *)

\* Conditions nobody has set claim nothing.
LEMMA NoConds == CondsOK(NilConds, 0)
<1>1. NilConds["Built"] = NilCond /\ NilConds["Running"] = NilCond
  BY DEF NilConds
<1>2. ~IsTrue(NilCond) /\ ~IsFalse(NilCond)
  BY DEF NilCond, Cond, IsTrue, IsFalse
<1>. QED
  BY <1>1, <1>2 DEF CondsOK

\* The invariant holds in the initial state ...
LEMMA InvariantInit ==
  ASSUME Init
  PROVE  IInv
<1>1. TypeOK
  BY TypeInit
<1>2. CondsOK(NilConds, 0)
  BY NoConds
<1>3. StatusInv
  BY <1>2 DEF Init, StatusInv, NewWorkflow, IdleWf
<1>4. BuildInv /\ ContextWritten /\ PodInv
  BY DEF Init, BuildInv, BuildOK, ContextWritten, PodInv, NoBuild, IdleBuild, NoPod
<1>. QED
  BY <1>1, <1>3, <1>4 DEF IInv

\* ... and every step keeps it.
LEMMA InvariantStep ==
  ASSUME IInv, [Next]_vars
  PROVE  IInv'
BY StatusStep, BuildStep, ContextWrittenStep, PodStep, TypeInductive DEF IInv

\* The invariant that carries the first two properties holds in every
\* reachable state.
THEOREM Invariance == Spec => []IInv
BY InvariantInit, InvariantStep, PTL DEF Spec

\* Every status any writer persists is accepted by one of the three states:
\* the state machine never ends in "unknown state condition", whatever the
\* interleaving, the faults and the lag of the caches.
THEOREM AlwaysReconcilableTheorem == Spec => []AlwaysReconcilable
<1>1. IInv => AlwaysReconcilable
  <2>. SUFFICES ASSUME IInv PROVE AlwaysReconcilable
    OBVIOUS
  <2>1. wf.conds \in ConditionMap /\ CondsOK(wf.conds, registry)
    BY DEF IInv, TypeOK, WfTypeOK, Workflow, StatusInv
  <2>2. MarkedOK(Initialized(wf.conds), registry) /\ Initialized(wf.conds) \in ConditionMap
    BY <2>1, InitializedOK, InitializedType
  <2>3. PICK c \in Condition : c = Initialized(wf.conds)["Built"]
    BY <2>2 DEF ConditionMap
  <2>4. IsFalse(c) => c.reason \in BuiltReasons
    BY <2>2, <2>3 DEF MarkedOK, CondsOK
  <2>5. ASSUME NEW reason, IsFalse(c), c.reason = reason PROVE c = Cond("False", reason)
    BY <2>5 DEF Condition, Cond, IsFalse
  <2>6. CASE IsFalse(c)
    BY <2>3, <2>4, <2>5, <2>6 DEF AlwaysReconcilable, Dispatch, NewBuilderCanReconcile,
       FollowCanReconcile, IsBuildRunning, BuiltReasons
  <2>7. CASE IsTrue(c)
    BY <2>3, <2>7 DEF AlwaysReconcilable, Dispatch, DeployCanReconcile
  <2>8. CASE IsUnknown(c)
    BY <2>3, <2>8 DEF AlwaysReconcilable, Dispatch, FollowCanReconcile
  <2>9. IsFalse(c) \/ IsTrue(c) \/ IsUnknown(c)
    BY DEF Condition, IsFalse, IsTrue, IsUnknown
  <2>. QED
    BY <2>6, <2>7, <2>8, <2>9
<1>. QED
  BY <1>1, Invariance, PTL

\* A workflow is reported as built only once an image of it has been pushed.
THEOREM BuiltHasImageTheorem == Spec => []BuiltHasImage
<1>1. IInv => BuiltHasImage
  BY DEF IInv, StatusInv, CondsOK, BuiltHasImage
<1>. QED
  BY <1>1, Invariance, PTL

-----------------------------------------------------------------------------
(* A build that has succeeded pushed its own build context.  The builder   *)
(* pod of the build before may run on, even push an image, while the next  *)
(* build is scheduled from a cache that lags behind.  What protects the    *)
(* next build is that the container builder schedules it only once the     *)
(* cache shows no pod, and that nothing monitors, and so creates, a pod    *)
(* while it is scheduled; what the cache had not seen is the exception.    *)

\* A build that the build reconciler schedules when it reads it.
Schedulable(b) == b.phase # "absent" /\ (b.phase = "None" \/ b.restart)

\* A build that was schedulable and may have been scheduled since.
ScheduledSince(b) == Schedulable(b) \/ b.phase \in {"Scheduling", "Initialization"}

\* A build for which the container builder deletes the earlier builder pod.
DeletesPod(b) == Schedulable(b) \/ b.phase = "Initialization"

\* A build whose builder pod is monitored, and created when it is missing.
Monitored(b) == b.phase \in {"Pending", "Running"} /\ ~b.restart

\* A build past the deletion of the builder pod of an earlier one.
PodIsItsOwn(b) == b.phase \in {"Scheduling", "Pending", "Running", "Succeeded"} /\ ~b.restart

\* There is no builder pod, and none in the cache.
NoEarlierPod == pod.state = "none" /\ podCache.state = "none"

\* The builder pod has read the build context there is, and a pod the cache
\* knows to have succeeded has pushed it.
PodMatchesContext ==
  /\ pod.state \in {"Running", "Succeeded"} => pod.bits = ctx
  /\ podCache.state = "Succeeded" => registry = ctx

\* The builder pod of a build on the server compiles its build context.
OwnPodInv ==
  /\ pod.state = "Succeeded" => registry = pod.bits
  /\ build.phase = "Scheduling" /\ ~overlooked => NoEarlierPod
  /\ PodIsItsOwn(build) /\ ~overlooked => PodMatchesContext
  /\ SucceededBuildPushedItsContext

\* The cached build is at most one request of the build reconciler behind.
CachedBuildInv ==
  /\ buildFresh => buildCache = build
  /\ DeletesPod(buildCache) => ScheduledSince(build)
  /\ build.phase = "Scheduling" => ~Monitored(buildCache)

\* So is the copy the build reconciler schedules ...
ScheduleInv ==
  /\ bk.pc \in {"schedule", "initialize"} => ScheduledSince(build)
  /\ bk.pc \in {"schedule", "initialize", "scheduleStatus"} /\ bk.fresh =>
       build = buildCache /\ Schedulable(build)
  /\ bk.pc \in {"scheduleStatus", "annotation"} =>
       /\ bk.build.phase \in {"Scheduling", "Initialization"}
       /\ bk.build.phase = "Scheduling" /\ ~overlooked => NoEarlierPod
  /\ bk.pc = "annotation" /\ bk.fresh => build = bk.build

\* ... and the copy it reconciles; what it writes follows from what it read.
ReconcileInv ==
  /\ bk.pc = "reconcile" =>
       /\ ~bk.build.restart /\ bk.build.phase \notin {"absent", "None"}
       /\ Monitored(bk.build) => build.phase # "Scheduling"
       /\ bk.build.phase = "Initialization" => ScheduledSince(build)
       /\ bk.fresh => build = bk.build /\ build = buildCache
  /\ bk.pc = "reconcileStatus" =>
       /\ ~bk.build.restart
       /\ bk.build.phase = "Scheduling" /\ ~overlooked => NoEarlierPod
       /\ bk.fresh =>
            /\ build = buildCache /\ ~build.restart /\ build.phase \notin {"absent", "None"}
            /\ bk.build.phase = "Scheduling" => build.phase = "Initialization"
            /\ build.phase = "Initialization" => bk.build.phase \in {"Scheduling", "None"}
            /\ bk.build.phase \in {"Pending", "Running", "Succeeded"} => PodIsItsOwn(build)
            /\ bk.build.phase = "Succeeded" /\ ~overlooked => registry = ctx

\* The invariant of the third theorem.
ContextInv == OwnPodInv /\ CachedBuildInv /\ ScheduleInv /\ ReconcileInv

\* The variables the invariant is about.
contextVars == <<registry, pod, podCache, overlooked, ctx, buildVars, bk>>

\* A step that changes none of its variables keeps the invariant.
LEMMA ContextStutter ==
  ASSUME ContextInv, UNCHANGED contextVars
  PROVE  ContextInv'
BY DEF contextVars, buildVars, ContextInv, OwnPodInv, CachedBuildInv, ScheduleInv,
   ReconcileInv, Schedulable, ScheduledSince, Monitored, PodIsItsOwn, PodMatchesContext,
   SucceededBuildPushedItsContext, DeletesPod, NoEarlierPod

\* Whoever writes a build that has to be scheduled, be it new, marked to
\* restart or annotated, keeps the invariant: it promises nothing for it.
LEMMA Rescheduled ==
  ASSUME ContextInv, UNCHANGED <<ctx, pod, podCache, overlooked, registry>>,
         NEW new, Schedulable(new), PutBuild(new),
         new.phase = "Scheduling" => build.phase = "Scheduling",
         bk'.pc = bk.pc, bk'.build = bk.build, bk'.fresh => bk.fresh,
         new # build /\ bk.pc \in {"schedule", "initialize", "scheduleStatus", "annotation",
                                   "reconcile", "reconcileStatus"} => ~bk'.fresh
  PROVE  ContextInv'
<1>1. CASE new = build
  <2>1. build' = build /\ (buildFresh' => buildFresh) /\ buildCache' = buildCache
    BY <1>1 DEF PutBuild
  <2>2. OwnPodInv'
    BY <2>1 DEF ContextInv, OwnPodInv, PodIsItsOwn, PodMatchesContext,
       SucceededBuildPushedItsContext, NoEarlierPod
  <2>3. CachedBuildInv'
    BY <2>1 DEF ContextInv, CachedBuildInv, Schedulable, ScheduledSince, Monitored, DeletesPod
  <2>4. ScheduleInv'
    BY <2>1 DEF ContextInv, ScheduleInv, Schedulable, ScheduledSince, NoEarlierPod
  <2>5. ReconcileInv'
    BY <2>1 DEF ContextInv, ReconcileInv, NoEarlierPod, Monitored, PodIsItsOwn, ScheduledSince,
       Schedulable
  <2>. QED
    BY <2>2, <2>3, <2>4, <2>5 DEF ContextInv
<1>2. CASE new # build
  <2>1. build' = new /\ ~buildFresh' /\ buildCache' = buildCache
    BY <1>2 DEF PutBuild
  <2>2. OwnPodInv'
    BY <2>1 DEF ContextInv, OwnPodInv, NoEarlierPod, Schedulable, PodIsItsOwn,
       SucceededBuildPushedItsContext
  <2>3. CachedBuildInv'
    BY <2>1 DEF ContextInv, CachedBuildInv, Schedulable, ScheduledSince, Monitored, DeletesPod
  <2>4. ScheduleInv'
    BY <1>2, <2>1 DEF ContextInv, ScheduleInv, Schedulable, ScheduledSince, NoEarlierPod
  <2>5. ReconcileInv'
    BY <1>2, <2>1 DEF ContextInv, ReconcileInv, NoEarlierPod, Monitored, ScheduledSince, Schedulable
  <2>. QED
    BY <2>2, <2>3, <2>4, <2>5 DEF ContextInv
<1>. QED
  BY <1>1, <1>2

\* The workflow reconciler creates the build or marks it to restart.
LEMMA WorkflowWritesBuild ==
  ASSUME WorkflowController
  PROVE  \/ UNCHANGED <<buildVars, bk>>
         \/ UNCHANGED bk /\ build.phase = "absent" /\ PutBuild(NewBuild)
         \/ /\ PutBuild([build EXCEPT !.phase = "None"])
            /\ bk' = StaleBk([build EXCEPT !.phase = "None"])
<1>1. CASE WfStart \/ WfNoPlatform \/ NewBuilderUpdate \/ NewBuilderProps \/ FollowRollout
           \/ DeployObjects \/ DeployObjectsErr \/ DeployObjectsFailed \/ DeploySync
           \/ DeployFinish \/ WfFinish
  BY <1>1 DEF WfStart, WfNoPlatform, NewBuilderUpdate, NewBuilderProps, FollowRollout,
     DeployObjects, DeployObjectsErr, DeployObjectsFailed, DeploySync, DeployFinish, WfFinish,
     buildVars
<1>2. CASE NewBuilderBuild \/ FollowBuild \/ DeployCheck
  <2>1. UNCHANGED bk
    <3>1. CASE NewBuilderBuild \/ FollowBuild
      BY <3>1 DEF NewBuilderBuild, FollowBuild
    <3>2. CASE DeployCheck
      <4>1. UNCHANGED <<wfVars, bk, clusterVars, restarts>>
        BY <3>2, Zenon DEF DeployCheck
      <4>. QED
        BY <4>1
    <3>. QED
      BY <1>2, <3>1, <3>2
  <2>2. UNCHANGED buildVars \/ (build.phase = "absent" /\ PutBuild(NewBuild))
    <3>1. ASSUME NEW got, NEW fresh, GetOrCreateBuild(got, fresh)
          PROVE  UNCHANGED buildVars \/ (build.phase = "absent" /\ PutBuild(NewBuild))
      BY <3>1 DEF GetOrCreateBuild
    <3>2. CASE GetOrCreateBuildErr
      BY <3>2 DEF GetOrCreateBuildErr
    <3>. QED
      BY <1>2, <3>1, <3>2, Zenon DEF NewBuilderBuild, FollowBuild, DeployCheck
  <2>. QED
    BY <2>1, <2>2
<1>3. CASE DeployRestart
  BY <1>3, Zenon DEF DeployRestart
<1>. QED
  BY <1>1, <1>2, <1>3 DEF WorkflowController

\* Either way the build has to be scheduled then.
LEMMA WorkflowContextStep ==
  ASSUME TypeOK, ContextInv, WorkflowController
  PROVE  ContextInv'
<1>0. UNCHANGED <<ctx, pod, podCache, overlooked, registry>>
  BY WorkflowFrame
<1>1. CASE UNCHANGED <<buildVars, bk>>
  BY <1>0, <1>1, ContextStutter DEF contextVars, buildVars
<1>2. CASE UNCHANGED bk /\ build.phase = "absent" /\ PutBuild(NewBuild)
  <2>1. Schedulable(NewBuild) /\ NewBuild.phase = "None"
    BY DEF Schedulable, NewBuild, NoBuild
  <2>2. bk.pc \in {"schedule", "initialize", "scheduleStatus", "annotation", "reconcile",
                 "reconcileStatus"}
          => ~bk.fresh
    BY <1>2 DEF ContextInv, ScheduleInv, ReconcileInv, Schedulable, NoEarlierPod
  <2>. QED
    BY <1>0, <1>2, <2>1, <2>2, Rescheduled
<1>3. ASSUME NEW new, new = [build EXCEPT !.phase = "None"], PutBuild(new), bk' = StaleBk(new)
      PROVE  ContextInv'
  <2>1. new.phase = "None" /\ Schedulable(new)
    BY <1>3 DEF TypeOK, BuildTypeOK, Build, Schedulable
  <2>2. /\ bk'.pc = bk.pc /\ bk'.build = bk.build
        /\ bk'.fresh => bk.fresh
        /\ new # build => ~bk'.fresh
    BY <1>3 DEF TypeOK, StaleBk, BuildRequest
  <2>. QED
    BY <1>0, <1>3, <2>1, <2>2, Rescheduled
<1>. QED
  BY <1>1, <1>2, <1>3, WorkflowWritesBuild

\* A request of the build reconciler starts from the cached build.
LEMMA BkStartContext ==
  ASSUME TypeOK, ContextInv, BkStart
  PROVE  ContextInv'
<1>. USE DEF wfVars, buildVars, clusterVars, podVars, budgetVars
<1>1. UNCHANGED <<build, buildCache, buildFresh, ctx, pod, podCache, overlooked, registry>>
  BY DEF BkStart
<1>2. CASE UNCHANGED bk
  BY <1>1, <1>2, ContextStutter DEF contextVars
<1>3. CASE ~UNCHANGED bk
  <2>1. /\ bk'.build = buildCache /\ bk'.fresh = buildFresh
        /\ \/ bk'.pc = "schedule" /\ Schedulable(buildCache)
           \/ /\ bk'.pc = "reconcile"
              /\ ~buildCache.restart /\ buildCache.phase \notin {"absent", "None"}
    BY <1>3 DEF BkStart, IdleBuild, Schedulable
  <2>2. OwnPodInv' /\ CachedBuildInv'
    BY <1>1 DEF ContextInv, OwnPodInv, CachedBuildInv, PodIsItsOwn, PodMatchesContext,
       SucceededBuildPushedItsContext, Schedulable, ScheduledSince, Monitored, DeletesPod,
       NoEarlierPod
  <2>3. ScheduleInv' /\ ReconcileInv'
    BY <1>1, <2>1 DEF ContextInv, CachedBuildInv, ScheduleInv, ReconcileInv, Schedulable,
       ScheduledSince, Monitored, DeletesPod, NoEarlierPod
  <2>. QED
    BY <2>2, <2>3 DEF ContextInv
<1>. QED
  BY <1>2, <1>3

\* Scheduling changes the build context only while the build on the server
\* has no builder pod of its own.
LEMMA BkScheduleContext ==
  ASSUME TypeOK, ContextInv, BkSchedule
  PROVE  ContextInv'
<1>. USE DEF wfVars, buildVars, clusterVars, podVars, budgetVars
<1>a. bk \in BuildRequest
  BY DEF TypeOK
<1>0. UNCHANGED <<build, buildCache, buildFresh, pod, podCache, overlooked, registry>>
  BY DEF BkSchedule
<1>1. ScheduledSince(build) /\ bk.pc = "schedule"
  BY DEF BkSchedule, ContextInv, ScheduleInv, NoEarlierPod
<1>2. OwnPodInv'
  BY <1>0, <1>1 DEF ContextInv, OwnPodInv, PodIsItsOwn, PodMatchesContext, NoEarlierPod,
     SucceededBuildPushedItsContext, Schedulable, ScheduledSince
<1>3. CachedBuildInv'
  BY <1>0 DEF ContextInv, CachedBuildInv, DeletesPod, Schedulable, ScheduledSince, Monitored
<1>4. bk'.pc = "idle" \/ (bk'.pc = "initialize" /\ bk'.fresh = bk.fresh)
  BY <1>a DEF BkSchedule, BkReturn, IdleBuild, BuildRequest
<1>5. ScheduleInv' /\ ReconcileInv'
  BY <1>0, <1>1, <1>4 DEF ContextInv, ScheduleInv, ReconcileInv, Schedulable, ScheduledSince,
     NoEarlierPod
<1>. QED
  BY <1>2, <1>3, <1>5 DEF ContextInv

\* initializePodAction keeps what holds of the builder pod.  It finds the pod
\* gone when there is none, or it overlooks one.
LEMMA InitializePodContext ==
  ASSUME TypeOK, OwnPodInv, ScheduledSince(build), NEW gone \in BOOLEAN, InitializePod(gone),
         UNCHANGED <<build, ctx, registry>>
  PROVE  OwnPodInv' /\ (gone /\ ~overlooked' => NoEarlierPod')
<1>1. pod'.state = pod.state /\ pod'.bits = pod.bits /\ podCache' = podCache
  BY DEF TypeOK, ClusterTypeOK, InitializePod, PutPod, Deleted, Pod
<1>2. gone = (podCache.state = "none")
  BY Zenon DEF InitializePod, PodSeenGone
<1>3. overlooked' = IF gone THEN pod.state # "none" ELSE overlooked
  BY Zenon DEF InitializePod
<1>4. gone /\ ~overlooked' => NoEarlierPod'
  BY <1>1, <1>2, <1>3 DEF NoEarlierPod
<1>5. ~gone => (overlooked' <=> overlooked)
  BY <1>3
<1>6. CASE gone /\ ~overlooked'
  BY <1>1, <1>4, <1>6 DEF OwnPodInv, NoEarlierPod, PodIsItsOwn, PodMatchesContext,
     SucceededBuildPushedItsContext, ScheduledSince, Schedulable
<1>7. CASE overlooked'
  BY <1>1, <1>7 DEF OwnPodInv, SucceededBuildPushedItsContext
<1>8. CASE ~gone
  BY <1>1, <1>5, <1>8 DEF OwnPodInv, NoEarlierPod, PodIsItsOwn, PodMatchesContext,
     SucceededBuildPushedItsContext
<1>. QED
  BY <1>4, <1>6, <1>7, <1>8

\* A build is initialized while nothing is promised of the build before.
LEMMA BkInitializeContext ==
  ASSUME TypeOK, ContextInv, BkInitialize
  PROVE  ContextInv'
<1>. USE DEF wfVars, buildVars, clusterVars, podVars, budgetVars
<1>a. bk \in BuildRequest /\ bk.build \in Build
  BY DEF TypeOK, BuildRequest
<1>0. UNCHANGED <<build, buildCache, buildFresh, ctx, registry>>
  BY DEF BkInitialize
<1>b. ScheduledSince(build) /\ bk.pc = "initialize"
  BY DEF BkInitialize, ContextInv, ScheduleInv, NoEarlierPod
<1>c. CachedBuildInv'
  BY <1>0 DEF ContextInv, CachedBuildInv, DeletesPod, Schedulable, ScheduledSince, Monitored
<1>1. CASE BkReturn(TRUE) /\ UNCHANGED podVars
  <2>1. bk'.pc = "idle"
    BY <1>1 DEF BkReturn, IdleBuild
  <2>2. OwnPodInv'
    BY <1>0, <1>1 DEF ContextInv, OwnPodInv, PodIsItsOwn, PodMatchesContext, NoEarlierPod,
       SucceededBuildPushedItsContext
  <2>. QED
    BY <1>c, <2>1, <2>2 DEF ContextInv, ScheduleInv, ReconcileInv, NoEarlierPod
<1>2. ASSUME NEW gone \in BOOLEAN, InitializePod(gone),
             bk' = [bk EXCEPT !.pc = "scheduleStatus",
                              !.build.phase = IF gone THEN "Scheduling" ELSE "Initialization"]
      PROVE  ContextInv'
  <2>1. /\ bk'.pc = "scheduleStatus" /\ bk'.fresh = bk.fresh
        /\ bk'.build.phase \in {"Scheduling", "Initialization"}
        /\ bk'.build.phase = "Scheduling" => gone
    BY <1>2, <1>a DEF BuildRequest, Build
  <2>2. OwnPodInv' /\ (gone /\ ~overlooked' => NoEarlierPod')
    BY <1>0, <1>b, <1>2, InitializePodContext DEF ContextInv
  <2>3. ScheduleInv' /\ ReconcileInv'
    BY <1>0, <1>b, <2>1, <2>2 DEF ContextInv, ScheduleInv, ReconcileInv, Schedulable,
       NoEarlierPod
  <2>. QED
    BY <1>c, <2>2, <2>3 DEF ContextInv
<1>. QED
  BY <1>1, <1>2, Zenon DEF BkInitialize

\* A scheduled build is written only over the build that was to be scheduled.
LEMMA BkScheduleStatusContext ==
  ASSUME TypeOK, ContextInv, BkScheduleStatus
  PROVE  ContextInv'
<1>. USE DEF wfVars, buildVars, clusterVars, podVars, budgetVars
<1>a. bk \in BuildRequest
  BY DEF TypeOK
<1>0. UNCHANGED <<ctx, pod, podCache, overlooked, registry>>
  BY DEF BkScheduleStatus
<1>1. CASE BkReturn(TRUE) /\ UNCHANGED buildVars
  <2>1. bk'.pc = "idle"
    BY <1>1 DEF BkReturn, IdleBuild
  <2>2. OwnPodInv' /\ CachedBuildInv'
    BY <1>0, <1>1 DEF ContextInv, OwnPodInv, CachedBuildInv, PodIsItsOwn, PodMatchesContext,
       SucceededBuildPushedItsContext, Schedulable, ScheduledSince, Monitored, DeletesPod,
       NoEarlierPod
  <2>. QED
    BY <2>1, <2>2 DEF ContextInv, ScheduleInv, ReconcileInv, NoEarlierPod
<1>2. CASE bk.fresh /\ PutBuild(bk.build)
  <2>1. /\ build = buildCache /\ Schedulable(build)
        /\ bk.build.phase \in {"Scheduling", "Initialization"}
        /\ bk.build.phase = "Scheduling" /\ ~overlooked => NoEarlierPod
    BY <1>2 DEF BkScheduleStatus, ContextInv, ScheduleInv, NoEarlierPod
  <2>2. build' = bk.build /\ buildCache' = buildCache /\ (buildFresh' => buildCache = bk.build)
    BY <1>2, <2>1 DEF PutBuild
  <2>3. bk'.pc = "idle" \/ (bk'.pc = "annotation" /\ bk'.build = bk.build)
    <3>1. CASE bk' = [bk EXCEPT !.pc = "annotation"]
      BY <3>1, <1>a DEF BuildRequest
    <3>2. CASE BkReturn(TRUE)
      BY <3>2 DEF BkReturn, IdleBuild
    <3>. QED
      BY <3>1, <3>2, Zenon DEF BkScheduleStatus
  <2>4. OwnPodInv'
    BY <1>0, <2>1, <2>2 DEF ContextInv, OwnPodInv, PodIsItsOwn, PodMatchesContext,
       SucceededBuildPushedItsContext, NoEarlierPod
  <2>5. CachedBuildInv'
    BY <2>1, <2>2 DEF CachedBuildInv, Schedulable, ScheduledSince, Monitored, DeletesPod
  <2>6. ScheduleInv' /\ ReconcileInv'
    BY <1>0, <2>1, <2>2, <2>3 DEF ScheduleInv, ReconcileInv, NoEarlierPod
  <2>. QED
    BY <2>4, <2>5, <2>6 DEF ContextInv
<1>. QED
  BY <1>1, <1>2 DEF BkScheduleStatus, WriteOk

\* Removing the annotation leaves a build that is being scheduled.
LEMMA BkAnnotationContext ==
  ASSUME TypeOK, ContextInv, BkAnnotation
  PROVE  ContextInv'
<1>. USE DEF wfVars, buildVars, clusterVars, podVars, budgetVars
<1>. DEFINE cleared == AnnotationCleared(bk.build)
<1>a. bk \in BuildRequest /\ bk.build \in Build
  BY DEF TypeOK, BuildRequest
<1>0. UNCHANGED <<ctx, pod, podCache, overlooked, registry>>
  BY DEF BkAnnotation
<1>1. CASE BkReturn(TRUE) /\ UNCHANGED buildVars
  <2>1. bk'.pc = "idle"
    BY <1>1 DEF BkReturn, IdleBuild
  <2>2. OwnPodInv' /\ CachedBuildInv'
    BY <1>0, <1>1 DEF ContextInv, OwnPodInv, CachedBuildInv, PodIsItsOwn, PodMatchesContext,
       SucceededBuildPushedItsContext, Schedulable, ScheduledSince, Monitored, DeletesPod,
       NoEarlierPod
  <2>. QED
    BY <2>1, <2>2 DEF ContextInv, ScheduleInv, ReconcileInv, NoEarlierPod
<1>2. CASE bk.fresh /\ PutBuild(cleared) /\ bk' = [bk EXCEPT !.pc = "signal", !.build = cleared]
  <2>1. cleared.phase = bk.build.phase
    BY <1>a DEF AnnotationCleared, Build
  <2>2. bk'.pc = "signal"
    BY <1>2, <1>a DEF BuildRequest
  <2>. HIDE DEF cleared
  <2>3. /\ build = bk.build
        /\ bk.build.phase \in {"Scheduling", "Initialization"}
        /\ bk.build.phase = "Scheduling" /\ ~overlooked => NoEarlierPod
    BY <1>2 DEF BkAnnotation, ContextInv, ScheduleInv, NoEarlierPod
  <2>4. build' = cleared /\ buildCache' = buildCache /\ (buildFresh' => buildCache = cleared)
    BY <1>2 DEF PutBuild, ContextInv, CachedBuildInv
  <2>5. OwnPodInv'
    BY <1>0, <2>1, <2>3, <2>4 DEF ContextInv, OwnPodInv, PodIsItsOwn, PodMatchesContext,
       SucceededBuildPushedItsContext, NoEarlierPod
  <2>6. CachedBuildInv'
    BY <2>1, <2>3, <2>4 DEF ContextInv, CachedBuildInv, Schedulable, ScheduledSince, Monitored,
       DeletesPod
  <2>. QED
    BY <2>2, <2>5, <2>6 DEF ContextInv, ScheduleInv, ReconcileInv, NoEarlierPod
<1>. QED
  BY <1>1, <1>2 DEF BkAnnotation, WriteOk

\* The container builder schedules only once it sees the earlier pod gone, and
\* creates no pod for a build that is being scheduled.
LEMMA BkReconcileContext ==
  ASSUME TypeOK, ContextInv, BkReconcile
  PROVE  ContextInv'
<1>. USE DEF wfVars, buildVars, clusterVars, podVars, budgetVars
<1>a. bk \in BuildRequest /\ bk.build \in Build /\ pod \in Pod
  BY DEF TypeOK, BuildRequest, ClusterTypeOK
<1>0. UNCHANGED <<build, buildCache, buildFresh, ctx, registry>> /\ bk.pc = "reconcile"
  <2>1. /\ bk.pc = "reconcile"
        /\ UNCHANGED <<wfVars, buildVars, wk, props, ctx, registry, deploy, restarts>>
    BY Zenon DEF BkReconcile
  <2>. QED
    BY <2>1
<1>b. CachedBuildInv'
  BY <1>0 DEF ContextInv, CachedBuildInv, DeletesPod, Schedulable, ScheduledSince, Monitored
<1>c. /\ ~bk.build.restart
      /\ Monitored(bk.build) => build.phase # "Scheduling"
      /\ bk.build.phase = "Initialization" => ScheduledSince(build)
      /\ bk.fresh => build = bk.build /\ build = buildCache
      /\ bk.build.phase \notin {"absent", "None"}
  BY <1>0 DEF ContextInv, ReconcileInv
<1>d. ASSUME UNCHANGED podVars PROVE OwnPodInv'
  BY <1>0, <1>d DEF ContextInv, OwnPodInv, PodIsItsOwn, PodMatchesContext, NoEarlierPod,
     SucceededBuildPushedItsContext
<1>1. CASE BkReturn(TRUE) /\ UNCHANGED podVars
  <2>1. bk'.pc = "idle"
    BY <1>1 DEF BkReturn, IdleBuild
  <2>. QED
    BY <1>b, <1>d, <1>1, <2>1 DEF ContextInv, ScheduleInv, ReconcileInv, NoEarlierPod
<1>2. ASSUME NEW phase \in Phases, OwnPodInv',
             phase = "Scheduling" =>
               /\ bk.build.phase = "Initialization"
               /\ ~overlooked' => NoEarlierPod',
             bk.build.phase = "Initialization" => phase \in {"Scheduling", "None"},
             phase \in {"Pending", "Running", "Succeeded"} =>
               bk.build.phase \in {"Scheduling", "Pending", "Running"},
             phase = "Succeeded" => podCache.state = "Succeeded" /\ UNCHANGED overlooked,
             bk' = [bk EXCEPT !.pc = "reconcileStatus", !.build.phase = phase,
                              !.build.image = (phase = "Succeeded")]
      PROVE  ContextInv'
  <2>1. /\ bk'.pc = "reconcileStatus" /\ bk'.fresh = bk.fresh
        /\ bk'.build.phase = phase /\ bk'.build.restart = bk.build.restart
    BY <1>2, <1>a DEF BuildRequest, Build
  <2>2. ASSUME bk.fresh, phase = "Succeeded", ~overlooked' PROVE registry = ctx
    BY <1>2, <1>c, <2>2 DEF ContextInv, OwnPodInv, PodIsItsOwn, PodMatchesContext, NoEarlierPod
  <2>3. ScheduleInv'
    BY <2>1 DEF ScheduleInv, NoEarlierPod
  <2>4. ReconcileInv'
    BY <1>0, <1>c, <1>2, <2>1, <2>2 DEF ReconcileInv, PodIsItsOwn
  <2>. QED
    BY <1>b, <1>2, <2>3, <2>4 DEF ContextInv
<1>3. ASSUME NEW phase \in Phases, WaitForPod(phase),
             bk' = [bk EXCEPT !.pc = "reconcileStatus", !.build.phase = phase,
                              !.build.image = (phase = "Succeeded")]
      PROVE  ContextInv'
  <2>1. PICK gone \in BOOLEAN : InitializePod(gone) /\ phase = IF gone THEN "Scheduling" ELSE "None"
    BY <1>3, Zenon DEF WaitForPod
  <2>2. bk.build.phase = "Initialization"
    BY <1>3 DEF WaitForPod
  <2>3. OwnPodInv' /\ (gone /\ ~overlooked' => NoEarlierPod')
    BY <1>0, <1>c, <2>1, <2>2, InitializePodContext DEF ContextInv
  <2>. QED
    BY <1>2, <1>3, <2>1, <2>2, <2>3
<1>4. ASSUME NEW phase \in Phases,
             \/ ScheduleBuild(phase)
             \/ MonitorPod(phase)
             \/ bk.build.phase = "Interrupted" /\ phase = "Interrupted" /\ UNCHANGED podVars,
             bk' = [bk EXCEPT !.pc = "reconcileStatus", !.build.phase = phase,
                              !.build.image = (phase = "Succeeded")]
      PROVE  ContextInv'
  <2>1. \/ UNCHANGED podVars
        \/ /\ UNCHANGED <<podCache, overlooked>> /\ podCache.state = "none"
           /\ pod.state = "none" /\ pod'.state = "Pending" /\ Monitored(bk.build)
    BY <1>4, <1>a, <1>c DEF ScheduleBuild, MonitorPod, CanCreatePod, PodSeenGone, PutPod, NoPod,
       Monitored
  <2>2. UNCHANGED <<podCache, overlooked>>
    BY <2>1
  <2>3. OwnPodInv'
    BY <1>0, <1>c, <1>d, <2>1 DEF ContextInv, OwnPodInv, PodIsItsOwn, PodMatchesContext,
       SucceededBuildPushedItsContext, NoEarlierPod
  <2>4. /\ bk.build.phase # "Initialization" /\ phase # "Scheduling"
        /\ phase \in {"Pending", "Running", "Succeeded"} =>
             bk.build.phase \in {"Scheduling", "Pending", "Running"}
        /\ phase = "Succeeded" => podCache.state = "Succeeded"
    BY <1>4 DEF ScheduleBuild, MonitorPod, MonitoredPhases
  <2>. QED
    BY <1>2, <1>4, <2>2, <2>3, <2>4
<1>5. \/ BkReturn(TRUE) /\ UNCHANGED podVars
      \/ \E phase \in Phases :
           /\ \/ WaitForPod(phase)
              \/ ScheduleBuild(phase)
              \/ MonitorPod(phase)
              \/ bk.build.phase = "Interrupted" /\ phase = "Interrupted" /\ UNCHANGED podVars
           /\ bk' = [bk EXCEPT !.pc = "reconcileStatus", !.build.phase = phase,
                               !.build.image = (phase = "Succeeded")]
  BY Zenon DEF BkReconcile
<1>6. CASE ~(BkReturn(TRUE) /\ UNCHANGED podVars)
  <2>1. PICK phase \in Phases :
          /\ \/ WaitForPod(phase)
             \/ ScheduleBuild(phase)
             \/ MonitorPod(phase)
             \/ bk.build.phase = "Interrupted" /\ phase = "Interrupted" /\ UNCHANGED podVars
          /\ bk' = [bk EXCEPT !.pc = "reconcileStatus", !.build.phase = phase,
                              !.build.image = (phase = "Succeeded")]
    BY <1>5, <1>6, Zenon
  <2>2. CASE WaitForPod(phase)
    BY <1>3, <2>1, <2>2, Zenon
  <2>3. CASE ~WaitForPod(phase)
    BY <1>4, <2>1, <2>3, Zenon
  <2>. QED
    BY <2>2, <2>3
<1>. QED
  BY <1>1, <1>6

\* A reconciled build is written only over the build that was read.
LEMMA BkReconcileStatusContext ==
  ASSUME TypeOK, ContextInv, BkReconcileStatus
  PROVE  ContextInv'
<1>. USE DEF wfVars, buildVars, clusterVars, podVars, budgetVars
<1>0. /\ UNCHANGED <<ctx, pod, podCache, overlooked, registry>>
      /\ bk'.pc = "idle" /\ bk.pc = "reconcileStatus"
  BY DEF BkReconcileStatus, BkReturn, IdleBuild
<1>1. CASE UNCHANGED buildVars
  <2>1. OwnPodInv' /\ CachedBuildInv'
    BY <1>0, <1>1 DEF ContextInv, OwnPodInv, CachedBuildInv, PodIsItsOwn, PodMatchesContext,
       SucceededBuildPushedItsContext, Schedulable, ScheduledSince, Monitored, DeletesPod,
       NoEarlierPod
  <2>. QED
    BY <1>0, <2>1 DEF ContextInv, ScheduleInv, ReconcileInv, NoEarlierPod
<1>2. CASE bk.fresh /\ PutBuild(bk.build)
  <2>1. /\ ~bk.build.restart
        /\ bk.build.phase = "Scheduling" /\ ~overlooked => NoEarlierPod
        /\ bk.build.phase = "Scheduling" => build.phase = "Initialization"
        /\ build.phase = "Initialization" => bk.build.phase \in {"Scheduling", "None"}
        /\ build = buildCache /\ ~build.restart /\ build.phase \notin {"absent", "None"}
        /\ bk.build.phase \in {"Pending", "Running", "Succeeded"} => PodIsItsOwn(build)
        /\ bk.build.phase = "Succeeded" /\ ~overlooked => registry = ctx
    BY <1>0, <1>2 DEF ContextInv, ReconcileInv
  <2>2. build' = bk.build /\ buildCache' = buildCache /\ (buildFresh' => buildCache = bk.build)
    BY <1>2, <2>1 DEF PutBuild
  <2>3. OwnPodInv'
    BY <1>0, <2>1, <2>2 DEF ContextInv, OwnPodInv, PodIsItsOwn, PodMatchesContext,
       SucceededBuildPushedItsContext, NoEarlierPod
  <2>4. CachedBuildInv'
    BY <2>1, <2>2 DEF CachedBuildInv, Schedulable, ScheduledSince, Monitored, DeletesPod
  <2>. QED
    BY <1>0, <2>3, <2>4 DEF ContextInv, ScheduleInv, ReconcileInv, NoEarlierPod
<1>. QED
  BY <1>1, <1>2 DEF BkReconcileStatus, WriteOk

\* A watch event or a restart of the operator hands over the build there is.
LEMMA DeliveredContext ==
  ASSUME ContextInv, UNCHANGED <<build, ctx, pod, overlooked, registry>>, buildCache' = build,
         podCache' \in {podCache, pod},
         bk' = bk \/ bk' = IdleBuild
  PROVE  ContextInv'
<1>1. OwnPodInv'
  BY DEF ContextInv, OwnPodInv, PodIsItsOwn, PodMatchesContext, SucceededBuildPushedItsContext,
     NoEarlierPod
<1>2. CachedBuildInv'
  BY DEF CachedBuildInv, Schedulable, ScheduledSince, Monitored, DeletesPod
<1>3. CASE bk' = bk
  BY <1>3, <1>1, <1>2 DEF ContextInv, ScheduleInv, ReconcileInv, Schedulable, ScheduledSince,
     Monitored, PodIsItsOwn, DeletesPod, NoEarlierPod
<1>4. CASE bk' = IdleBuild
  BY <1>4, <1>1, <1>2 DEF ContextInv, ScheduleInv, ReconcileInv, IdleBuild, NoEarlierPod
<1>. QED
  BY <1>3, <1>4

\* The cache sees the builder pod there is.
LEMMA DeliveredPodContext ==
  ASSUME ContextInv,
         UNCHANGED <<build, buildCache, buildFresh, bk, ctx, pod, overlooked, registry>>,
         podCache' = pod
  PROVE  ContextInv'
<1>1. OwnPodInv'
  BY DEF ContextInv, OwnPodInv, PodIsItsOwn, PodMatchesContext, NoEarlierPod,
     SucceededBuildPushedItsContext
<1>2. CachedBuildInv'
  BY DEF ContextInv, CachedBuildInv, DeletesPod, Schedulable, ScheduledSince, Monitored
<1>3. ScheduleInv' /\ ReconcileInv'
  BY DEF ContextInv, ScheduleInv, ReconcileInv, Schedulable, ScheduledSince, Monitored,
     PodIsItsOwn, NoEarlierPod, DeletesPod
<1>. QED
  BY <1>1, <1>2, <1>3 DEF ContextInv

\* The builder pod compiles the context of the build it belongs to, and a
\* pod of an earlier build pushes while no build counts on the registry.
LEMMA PodContext ==
  ASSUME TypeOK, ContextInv, PodStarts \/ PodSucceeds \/ PodFails \/ PodEvicted \/ PodGone
  PROVE  ContextInv'
<1>. USE DEF wfVars, buildVars, clusterVars, podVars, budgetVars
<1>a. pod \in Pod
  BY DEF TypeOK, ClusterTypeOK
<1>0. UNCHANGED <<build, buildCache, buildFresh, bk, ctx, podCache, overlooked>>
  BY DEF PodStarts, PodSucceeds, PodFails, PodEvicted, PodGone, PutPod
<1>1. \/ /\ registry' = registry
         /\ \/ pod'.state = pod.state /\ pod'.bits = pod.bits
            \/ pod'.state = "Running" /\ pod.state = "Pending" /\ pod'.bits = ctx
            \/ pod'.state = "Failed" /\ pod.state = "Running"
            \/ pod'.state = "none"
      \/ /\ pod.state = "Running" /\ pod'.state = "Succeeded"
         /\ pod'.bits = pod.bits /\ registry' = pod.bits
  <2>1. CASE PodStarts
    BY <2>1, <1>a DEF PodStarts, PutPod, Pod
  <2>2. CASE PodSucceeds
    BY <2>2, <1>a DEF PodSucceeds, PutPod, Pod
  <2>3. CASE PodFails
    BY <2>3, <1>a DEF PodFails, PutPod, Pod
  <2>4. CASE PodEvicted
    BY <2>4, <1>a DEF PodEvicted, PutPod, Deleted, Pod
  <2>5. CASE PodGone
    BY <2>5 DEF PodGone, PutPod, NoPod
  <2>. QED
    BY <2>1, <2>2, <2>3, <2>4, <2>5
<1>2. OwnPodInv'
  BY <1>0, <1>1 DEF ContextInv, OwnPodInv, PodIsItsOwn, PodMatchesContext, NoEarlierPod,
     SucceededBuildPushedItsContext
<1>3. CachedBuildInv'
  BY <1>0 DEF ContextInv, CachedBuildInv, DeletesPod, Schedulable, ScheduledSince, Monitored
<1>4. ScheduleInv'
  BY <1>0, <1>1 DEF ContextInv, ScheduleInv, Schedulable, ScheduledSince, NoEarlierPod
<1>5. ReconcileInv'
  BY <1>0, <1>1 DEF ContextInv, OwnPodInv, PodMatchesContext, ReconcileInv, Monitored,
     PodIsItsOwn, NoEarlierPod, ScheduledSince, Schedulable, DeletesPod
<1>. QED
  BY <1>2, <1>3, <1>4, <1>5 DEF ContextInv

\* A restart asked for takes the promise back until the build has succeeded
\* again.
LEMMA UserRestartsContext ==
  ASSUME TypeOK, ContextInv, UserRestarts
  PROVE  ContextInv'
<1>. DEFINE new == [build EXCEPT !.restart = TRUE]
<1>0. UNCHANGED <<ctx, pod, podCache, overlooked, registry>>
  BY DEF UserRestarts, clusterVars, podVars
<1>1. PutBuild(new) /\ bk' = StaleBk(new) /\ build.phase # "absent"
  BY Zenon DEF UserRestarts
<1>2. new.phase = build.phase /\ Schedulable(new)
  BY <1>1 DEF TypeOK, BuildTypeOK, Build, Schedulable
<1>3. /\ bk'.pc = bk.pc /\ bk'.build = bk.build
      /\ bk'.fresh => bk.fresh
      /\ new # build => ~bk'.fresh
  BY <1>1 DEF TypeOK, StaleBk, BuildRequest
<1>. HIDE DEF new
<1>. QED
  BY <1>0, <1>1, <1>2, <1>3, Rescheduled

\* No step breaks the chain from the build over its pod to the registry.
LEMMA ContextStep ==
  ASSUME TypeOK, ContextInv, [Next]_vars
  PROVE  ContextInv'
<1>. USE DEF wfVars, buildVars, clusterVars, podVars, budgetVars
<1>1. CASE UNCHANGED vars
  BY <1>1, ContextStutter DEF vars, contextVars
<1>2. CASE WorkflowController
  BY <1>2, WorkflowContextStep
<1>3. CASE BkSignal
  <2>1. /\ UNCHANGED <<build, buildCache, buildFresh, ctx, pod, podCache, overlooked, registry>>
        /\ bk'.pc = "idle"
    BY <1>3 DEF BkSignal, BkReturn, IdleBuild
  <2>2. OwnPodInv' /\ CachedBuildInv'
    BY <2>1 DEF ContextInv, OwnPodInv, CachedBuildInv, PodIsItsOwn, PodMatchesContext,
       SucceededBuildPushedItsContext, Schedulable, ScheduledSince, Monitored, DeletesPod,
       NoEarlierPod
  <2>. QED
    BY <2>1, <2>2 DEF ContextInv, ScheduleInv, ReconcileInv, NoEarlierPod
<1>4. CASE BuildController
  BY <1>3, <1>4, BkStartContext, BkScheduleContext, BkInitializeContext, BkScheduleStatusContext,
     BkAnnotationContext, BkReconcileContext, BkReconcileStatusContext DEF BuildController
<1>5. CASE DeliverBuild \/ OperatorRestart
  BY <1>5, DeliveredContext DEF DeliverBuild, OperatorRestart
<1>8. CASE DeliverPod
  BY <1>8, DeliveredPodContext DEF DeliverPod
<1>6. CASE DeliverWf \/ Resync \/ DeploymentPodsStart \/ DeploymentDegrades \/ DeploymentDeleted
           \/ UserEdits
  BY <1>6, ContextStutter DEF contextVars, DeliverWf, Resync, DeploymentPodsStart,
     DeploymentDegrades, DeploymentDeleted, UserEdits
<1>7. CASE Environment
  BY <1>5, <1>6, <1>7, <1>8, PodContext, UserRestartsContext DEF Environment
<1>. QED
  BY <1>1, <1>2, <1>4, <1>7 DEF Next

\* At first there is no build, no pod and no request.
LEMMA ContextInit ==
  ASSUME Init
  PROVE  ContextInv
BY DEF Init, ContextInv, OwnPodInv, CachedBuildInv, ScheduleInv, ReconcileInv, Schedulable,
   ScheduledSince, Monitored, PodIsItsOwn, PodMatchesContext, SucceededBuildPushedItsContext,
   NoBuild, NoPod, IdleBuild, DeletesPod, NoEarlierPod

\* A build that has succeeded pushed the flow of its own build context, for
\* every lag of the caches, fault and moment of an edit or a restart, unless
\* an earlier builder pod was overlooked.  OwnPodTheorem below says that none
\* is while the pod cache is up to date, however the other caches lag.
THEOREM SucceededBuildTheorem == Spec => []SucceededBuildPushedItsContext
<1>1. Init => ContextInv
  BY ContextInit
<1>2. TypeOK /\ ContextInv /\ [Next]_vars => ContextInv'
  BY ContextStep
<1>3. ContextInv => SucceededBuildPushedItsContext
  BY DEF ContextInv, OwnPodInv
<1>. QED
  BY <1>1, <1>2, <1>3, TypeCorrect, PTL DEF Spec

-----------------------------------------------------------------------------
(* The image of a settled workflow is of its flow, if the flow is edited   *)
(* and the build restarted only while the workflow is settled: a build     *)
(* that is under way when the flow changes may be taken for one of the new *)
(* flow.  Either the build in progress or done is of the flow there is, or *)
(* the edit has not been acted upon: then the build is still the finished  *)
(* one, and the status does not speak of the new flow.                     *)

\* The build is of the current flow, or will be when it is scheduled.
BuiltForFlow ==
  /\ wfCache.flow = wf.flow
  /\ Schedulable(build) \/ build.phase = "absent" \/ ctx = wf.flow

\* The conditions of a workflow that is built and runs.
BothTrue(conds) == IsTrue(conds["Running"]) /\ IsTrue(conds["Built"])

\* A request since the edit: it has seen the new flow and is about to restart
\* the build, or it works on a copy of the workflow it cannot write.
UnseenRequest ==
  /\ wk.crc = wf.crc
  /\ \/ wk.flow = wf.flow /\ wfCache.flow = wf.flow /\ wk.pc \in {"deploy", "restart"}
     \/ /\ wk.flow = wf.crc /\ ~wk.fresh
        /\ wk.pc \in {"deploy", "objects", "objectsFailed", "sync", "deployFinish", "finish"}

\* The flow was edited and nobody has restarted the build yet.
EditUnseen ==
  /\ wf.crc # 0 /\ wf.crc # wf.flow
  /\ BothTrue(wf.conds) /\ BothTrue(wfCache.conds)
  /\ wfCache.crc = wf.crc /\ wfCache.flow \in {wf.flow, wf.crc}
  /\ build.phase = "Succeeded" /\ ~build.restart /\ buildCache = build
  /\ bk.pc = "idle"
  /\ wk.pc # "idle" => UnseenRequest

\* What a copy with the server's version agrees with.
FreshCopies ==
  /\ wfFresh => wfCache = wf
  /\ wk.pc # "idle" /\ wk.fresh => wk.flow = wf.flow

\* The invariant of the fourth theorem, beside the others.
EditInv ==
  /\ FreshCopies
  /\ bk.pc \in {"initialize", "scheduleStatus", "annotation"} => ctx = wf.flow
  /\ BuiltForFlow \/ EditUnseen

\* A workflow that runs and is built is dispatched to the deploying state.
LEMMA DispatchBothTrue ==
  ASSUME NEW conds \in ConditionMap, BothTrue(conds)
  PROVE  Dispatch(Initialized(conds)) = "deploy"
<1>. DEFINE c == Initialized(conds)
<1>1. conds["Running"] # NilCond /\ conds["Built"] # NilCond
  <2>1. NilCond.status # "True"
    BY DEF NilCond, Cond
  <2>. QED
    BY <2>1 DEF BothTrue, IsTrue
<1>2. c["Running"] = conds["Running"] /\ c["Built"] = conds["Built"]
  BY <1>1 DEF Initialized, InitializeConditions, ConditionMap
<1>. HIDE DEF c
<1>3. /\ ~IsUnknown(c["Running"]) /\ ~IsUnknown(c["Built"]) /\ IsTrue(c["Built"])
      /\ c["Running"].status # "False" /\ c["Built"].status # "False"
  BY <1>2 DEF BothTrue, IsTrue, IsUnknown
<1>4. \A reason : Cond("False", reason).status = "False"
  BY DEF Cond
<1>5. Dispatch(c) = "deploy"
  BY <1>3, <1>4 DEF Dispatch, NewBuilderCanReconcile, FollowCanReconcile, IsBuildRunning,
     IsWaitingForBuild, DeployCanReconcile
<1>. QED
  BY <1>5 DEF c

\* Only the user changes the flow of a workflow: the status updates of both
\* controllers keep it, and with a fresh copy the cached one is out of date.
LEMMA FlowKept ==
  ASSUME TypeOK, FreshCopies, WorkflowController \/ BuildController
  PROVE  /\ wf'.flow = wf.flow /\ (wfFresh' => wfCache' = wf')
         /\ wfCache' = wfCache
<1>. USE DEF wfVars, buildVars, clusterVars, podVars, budgetVars
<1>a. wf \in Workflow /\ wfCache \in Workflow /\ wk \in WorkflowRequest
  BY DEF TypeOK, WfTypeOK
<1>b. ASSUME NEW new, new.flow = wf.flow, PutWf(new)
      PROVE  wf'.flow = wf.flow /\ (wfFresh' => wfCache' = wf') /\ wfCache' = wfCache
  BY <1>b DEF PutWf, FreshCopies
<1>c. ASSUME UNCHANGED wfVars
      PROVE  wf'.flow = wf.flow /\ (wfFresh' => wfCache' = wf') /\ wfCache' = wfCache
  BY <1>c DEF FreshCopies
<1>d. StatusOf(wk).flow = wf.flow
  BY <1>a DEF StatusOf, Workflow
<1>1. CASE NewBuilderUpdate \/ DeployObjectsFailed \/ DeployFinish \/ WfFinish
  BY <1>1, <1>b, <1>c, <1>d DEF NewBuilderUpdate, DeployObjectsFailed, DeployFinish, WfFinish
<1>2. CASE WfStart \/ WfNoPlatform \/ NewBuilderProps \/ NewBuilderBuild \/ FollowBuild
           \/ FollowRollout \/ DeployCheck \/ DeployRestart \/ DeployObjects \/ DeployObjectsErr
           \/ DeploySync
  <2>1. UNCHANGED wfVars
    <3>1. CASE WfStart \/ NewBuilderProps \/ FollowRollout \/ DeployObjects \/ DeploySync
      BY <3>1 DEF WfStart, NewBuilderProps, FollowRollout, DeployObjects, DeploySync
    <3>2. CASE WfNoPlatform \/ DeployObjectsErr
      BY <3>2 DEF WfNoPlatform, DeployObjectsErr
    <3>3. CASE NewBuilderBuild \/ FollowBuild
      BY <3>3 DEF NewBuilderBuild, FollowBuild
    <3>4. CASE DeployCheck
      <4>1. UNCHANGED <<wfVars, bk, clusterVars, restarts>>
        BY <3>4, Zenon DEF DeployCheck
      <4>. QED
        BY <4>1
    <3>5. CASE DeployRestart
      <4>1. UNCHANGED <<wfVars, clusterVars, restarts>>
        BY <3>5, Zenon DEF DeployRestart
      <4>. QED
        BY <4>1
    <3>. QED
      BY <1>2, <3>1, <3>2, <3>3, <3>4, <3>5
  <2>. QED
    BY <1>c, <2>1
<1>3. CASE BkSignal
  <2>1. ASSUME wfFresh PROVE [wfCache EXCEPT !.conds = MarkFalse(@, "Built", "BuildIsRunning")].flow = wf.flow
    BY <1>a, <2>1 DEF FreshCopies, Workflow
  <2>. QED
    BY <1>3, <1>b, <1>c, <2>1 DEF BkSignal, WriteOk
<1>4. CASE BuildController /\ ~BkSignal
  <2>1. UNCHANGED wfVars
    <3>1. CASE BkStart \/ BkSchedule \/ BkScheduleStatus \/ BkReconcileStatus
      BY <3>1 DEF BkStart, BkSchedule, BkScheduleStatus, BkReconcileStatus
    <3>2. CASE BkAnnotation
      BY <3>2 DEF BkAnnotation
    <3>3. CASE BkInitialize \/ BkReconcile
      <4>1. UNCHANGED <<wfVars, buildVars, wk, props, ctx, registry, deploy, restarts>>
        BY <3>3, Zenon DEF BkInitialize, BkReconcile
      <4>. QED
        BY <4>1
    <3>. QED
      BY <1>4, <3>1, <3>2, <3>3 DEF BuildController
  <2>. QED
    BY <1>c, <2>1
<1>. QED
  BY <1>1, <1>2, <1>3, <1>4 DEF WorkflowController

\* A request keeps the flow of its copy and whether it is fresh until it ends.
LEMMA RequestKept ==
  ASSUME wk \in WorkflowRequest, WorkflowController, ~WfStart
  PROVE  /\ wk.pc # "idle"
         /\ wk' = IdleWf \/ (wk'.flow = wk.flow /\ wk'.fresh = wk.fresh /\ wk'.crc = wk.crc)
<1>. DEFINE Kept == wk'.flow = wk.flow /\ wk'.fresh = wk.fresh /\ wk'.crc = wk.crc
<1>a. ASSUME NEW conds, NEW pc, WfGoto(pc, conds) PROVE Kept
  BY <1>a DEF WfGoto, WorkflowRequest
<1>b. ASSUME NEW conds, NEW requeue, WfFinishWith(conds, requeue) PROVE Kept
  BY <1>b DEF WfFinishWith, WorkflowRequest
<1>c. ASSUME NEW conds, DeployFinishWith(conds) PROVE Kept
  BY <1>c DEF DeployFinishWith, WorkflowRequest
<1>d. ASSUME NEW got, NEW fresh, NEW pc,
             wk' = [wk EXCEPT !.pc = pc, !.build = got, !.buildFresh = fresh]
      PROVE  Kept
  BY <1>d DEF WorkflowRequest
<1>. HIDE DEF Kept
<1>1. wk.pc # "idle"
  <2>1. wk.pc \in {"newBuilder", "newBuilderProps", "newBuilderBuild", "follow", "rollout", "deploy",
                   "restart", "objects", "objectsFailed", "sync", "deployFinish", "finish"}
    BY Zenon DEF WorkflowController, WfNoPlatform, NewBuilderUpdate, NewBuilderProps,
       NewBuilderBuild, FollowBuild, FollowRollout, DeployCheck, DeployRestart, DeployObjects,
       DeployObjectsErr, DeployObjectsFailed, DeploySync, DeployFinish, WfFinish
  <2>. QED
    BY <2>1
<1>2. wk' = IdleWf \/ Kept
  <2>1. CASE WfNoPlatform \/ NewBuilderUpdate \/ NewBuilderProps
    BY <2>1, <1>a, <1>b DEF WfNoPlatform, NewBuilderUpdate, NewBuilderProps, WfReturn
  <2>2. CASE NewBuilderBuild \/ FollowBuild \/ FollowRollout
    BY <2>2, <1>a, <1>b, Zenon DEF NewBuilderBuild, FollowBuild, FollowRollout, WfReturn
  <2>3. CASE DeployCheck
    BY <2>3, <1>d, Zenon DEF DeployCheck, WfReturn
  <2>4. CASE DeployRestart \/ DeployObjects \/ DeployObjectsErr
    BY <2>4, <1>a, <1>b, <1>c, Zenon DEF DeployRestart, DeployObjects, DeployObjectsErr,
       DeployFailed, WfReturn
  <2>5. CASE DeployObjectsFailed \/ DeploySync \/ DeployFinish \/ WfFinish
    BY <2>5, <1>b, <1>c, Zenon DEF DeployObjectsFailed, DeploySync, DeployFinish, WfFinish,
       DeployFailed, WfReturn
  <2>. QED
    BY <2>1, <2>2, <2>3, <2>4, <2>5 DEF WorkflowController
<1>. QED
  BY <1>1, <1>2 DEF Kept

\* A copy with the server's version keeps agreeing with it.
LEMMA FreshStep ==
  ASSUME TypeOK, FreshCopies, [Next]_vars
  PROVE  FreshCopies'
<1>. USE DEF wfVars, buildVars, clusterVars, podVars, budgetVars
<1>a. wf \in Workflow /\ wfCache \in Workflow /\ wk \in WorkflowRequest
  BY DEF TypeOK, WfTypeOK
<1>b. ASSUME wf'.flow = wf.flow, wfFresh' => wfCache' = wf',
             \/ wk'.pc = "idle"
             \/ wk'.flow = wk.flow /\ (wk'.fresh => wk.fresh) /\ wk.pc # "idle"
             \/ wk'.pc = wk.pc /\ wk'.flow = wk.flow /\ (wk'.fresh => wk.fresh)
      PROVE  FreshCopies'
  BY <1>b DEF FreshCopies
<1>1. CASE UNCHANGED vars
  BY <1>1, <1>b DEF vars, FreshCopies
<1>2. CASE WfStart
  <2>1. wk'.flow = wfCache.flow /\ wk'.fresh = wfFresh
    BY <1>2 DEF WfStart, IdleWf
  <2>. QED
    BY <1>2, <2>1 DEF WfStart, FreshCopies
<1>3. CASE WorkflowController
  <2>1. CASE ~WfStart
    <3>1. wk.pc # "idle" /\ (wk' = IdleWf \/ (wk'.flow = wk.flow /\ wk'.fresh = wk.fresh))
      BY <1>3, <2>1, <1>a, RequestKept
    <3>. QED
      BY <1>3, <1>b, <3>1, FlowKept DEF IdleWf
  <2>. QED
    BY <1>2, <2>1
<1>4. CASE BuildController
  <2>1. \/ wk' = wk
        \/ \E new : wk' = StaleWk(new)
        \/ \E new : wk' = StaleWkBuild(new)
    <3>1. CASE BkStart \/ BkSchedule \/ BkInitialize \/ BkReconcile
      BY <3>1, Zenon DEF BkStart, BkSchedule, BkInitialize, BkReconcile
    <3>2. CASE BkScheduleStatus \/ BkAnnotation \/ BkSignal \/ BkReconcileStatus
      BY <3>2, Zenon DEF BkScheduleStatus, BkAnnotation, BkSignal, BkReconcileStatus
    <3>. QED
      BY <1>4, <3>1, <3>2 DEF BuildController
  <2>2. wk'.pc = wk.pc /\ wk'.flow = wk.flow /\ (wk'.fresh => wk.fresh)
    BY <2>1, <1>a DEF StaleWk, StaleWkBuild, WorkflowRequest
  <2>. QED
    BY <1>4, <1>b, <2>2, FlowKept
<1>5. CASE UserEdits
  <2>. DEFINE new == [wf EXCEPT !.flow = @ + 1]
  <2>1. wf' = new /\ wfFresh' = (wfFresh /\ new = wf) /\ wfCache' = wfCache /\ wk' = StaleWk(new)
    BY <1>5 DEF UserEdits, PutWf
  <2>2. new # wf
    <3>1. new.flow = wf.flow + 1 /\ wf.flow \in Nat
      BY <1>a, BoundsAssumption DEF BoundsAssumption, Workflow, Flows
    <3>. HIDE DEF new
    <3>. QED
      BY <3>1
  <2>3. ~wk'.fresh
    BY <1>a, <2>1, <2>2 DEF StaleWk, WorkflowRequest
  <2>. QED
    BY <2>1, <2>2, <2>3 DEF FreshCopies
<1>6. CASE UserRestarts
  <2>1. wk'.pc = wk.pc /\ wk'.flow = wk.flow /\ wk'.fresh = wk.fresh /\ UNCHANGED wfVars
    BY <1>6, <1>a DEF UserRestarts, StaleWkBuild, WorkflowRequest
  <2>. QED
    BY <1>b, <2>1 DEF FreshCopies
<1>7. CASE OperatorRestart \/ DeliverWf
  BY <1>7 DEF OperatorRestart, DeliverWf, FreshCopies, IdleWf
<1>8. CASE DeliverBuild \/ DeliverPod \/ Resync \/ PodStarts \/ PodSucceeds \/ PodFails
           \/ PodEvicted \/ PodGone \/ DeploymentPodsStart \/ DeploymentDegrades \/ DeploymentDeleted
  <2>1. UNCHANGED <<wf, wfCache, wfFresh, wk>>
    BY <1>8 DEF DeliverBuild, DeliverPod, Resync, PodStarts, PodSucceeds, PodFails, PodEvicted,
       PodGone, DeploymentPodsStart, DeploymentDegrades, DeploymentDeleted
  <2>. QED
    BY <2>1 DEF FreshCopies
<1>. QED
  BY <1>1, <1>3, <1>4, <1>5, <1>6, <1>7, <1>8 DEF Next, Environment

\* What the workflow reconciler writes as the build has to be scheduled.
LEMMA WorkflowReschedules ==
  ASSUME TypeOK, WorkflowController
  PROVE  (build' = build \/ Schedulable(build')) /\ bk'.pc = bk.pc
<1>1. NewBuild.phase = "None" /\ [build EXCEPT !.phase = "None"].phase = "None"
  BY DEF TypeOK, BuildTypeOK, Build, NewBuild, NoBuild
<1>2. \A new : StaleBk(new).pc = bk.pc
  BY DEF TypeOK, StaleBk, BuildRequest
<1>. QED
  BY <1>1, <1>2, WorkflowWritesBuild DEF Schedulable, PutBuild, buildVars

\* When the build reconciler writes the build.
LEMMA BuildReconcilerWrites ==
  ASSUME BuildController
  PROVE  \/ build' = build
         \/ bk.pc \in {"scheduleStatus", "annotation"}
         \/ bk.pc = "reconcileStatus" /\ bk.fresh
<1>. USE DEF wfVars, buildVars, clusterVars, podVars, budgetVars
<1>1. CASE BkStart \/ BkSchedule \/ BkSignal
  BY <1>1 DEF BkStart, BkSchedule, BkSignal
<1>2. CASE BkScheduleStatus \/ BkAnnotation
  BY <1>2 DEF BkScheduleStatus, BkAnnotation
<1>3. CASE BkInitialize \/ BkReconcile
  <2>1. UNCHANGED <<wfVars, buildVars, wk, props, ctx, registry, deploy, restarts>>
    BY <1>3, Zenon DEF BkInitialize, BkReconcile
  <2>. QED
    BY <2>1
<1>4. CASE BkReconcileStatus
  BY <1>4 DEF BkReconcileStatus, WriteOk
<1>. QED
  BY <1>1, <1>2, <1>3, <1>4 DEF BuildController

\* The build context of a build that is being scheduled is of the flow there
\* is: the flow is not edited meanwhile.
LEMMA ScheduledContext ==
  ASSUME TypeOK, EditInv, ~EditAnyTime, [Next]_vars
  PROVE  bk'.pc \in {"initialize", "scheduleStatus", "annotation"} => ctx' = wf'.flow
<1>. USE DEF wfVars, buildVars, clusterVars, podVars, budgetVars
<1>a. bk \in BuildRequest /\ IdleBuild.pc = "idle"
  BY DEF TypeOK, IdleBuild
<1>b. ASSUME ctx' = ctx, wf'.flow = wf.flow,
             \/ bk'.pc = bk.pc
             \/ bk'.pc \notin {"initialize", "scheduleStatus", "annotation"}
             \/ bk.pc \in {"initialize", "scheduleStatus"}
      PROVE  bk'.pc \in {"initialize", "scheduleStatus", "annotation"} => ctx' = wf'.flow
  BY <1>b DEF EditInv
<1>1. CASE UNCHANGED vars
  BY <1>1, <1>b DEF vars
<1>2. CASE WorkflowController
  BY <1>2, <1>b, WorkflowReschedules, WorkflowFrame, FlowKept DEF EditInv
<1>3. CASE BkSchedule
  <2>1. wfCache.flow = wf.flow
    BY <1>3 DEF BkSchedule, EditInv, BuiltForFlow, EditUnseen
  <2>. QED
    BY <1>3, <1>a, <2>1 DEF BkSchedule, BkReturn
<1>4. CASE BuildController /\ ~BkSchedule
  <2>1. \/ bk'.pc \notin {"initialize", "scheduleStatus", "annotation"}
        \/ bk.pc \in {"initialize", "scheduleStatus"}
        \/ bk'.pc = bk.pc
    <3>1. CASE BkStart \/ BkSignal \/ BkReconcileStatus \/ BkScheduleStatus
      BY <3>1, <1>a DEF BkStart, BkSignal, BkReconcileStatus, BkScheduleStatus, BkReturn, IdleBuild
    <3>2. CASE BkInitialize \/ BkAnnotation
      BY <3>2, <1>a DEF BkInitialize, BkAnnotation, BkReturn, BuildRequest
    <3>3. CASE BkReconcile
      <4>1. \/ bk' = IdleBuild
            \/ \E phase : bk' = [bk EXCEPT !.pc = "reconcileStatus", !.build.phase = phase,
                                           !.build.image = (phase = "Succeeded")]
        BY <3>3, Zenon DEF BkReconcile, BkReturn
      <4>2. ASSUME NEW phase, bk' = [bk EXCEPT !.pc = "reconcileStatus", !.build.phase = phase,
                                               !.build.image = (phase = "Succeeded")]
            PROVE  bk'.pc = "reconcileStatus"
        BY <4>2, <1>a DEF BuildRequest
      <4>3. bk' = IdleBuild \/ bk'.pc = "reconcileStatus"
        BY <4>1, <4>2, Zenon
      <4>. QED
        BY <4>3, <1>a
    <3>. QED
      BY <1>4, <3>1, <3>2, <3>3 DEF BuildController
  <2>. QED
    BY <1>4, <1>b, <2>1, BuildFrame, FlowKept DEF EditInv
<1>5. CASE UserEdits
  BY <1>5 DEF UserEdits, Settled
<1>6. CASE UserRestarts
  BY <1>6, <1>a, <1>b DEF UserRestarts, StaleBk, BuildRequest
<1>7. CASE Environment /\ ~UserEdits /\ ~UserRestarts
  BY <1>7, <1>a, <1>b DEF Environment, DeliverWf, DeliverBuild, DeliverPod, Resync,
     OperatorRestart, PodStarts, PodSucceeds, PodFails, PodEvicted, PodGone, DeploymentPodsStart,
     DeploymentDegrades, DeploymentDeleted
<1>. QED
  BY <1>1, <1>2, <1>3, <1>4, <1>5, <1>6, <1>7 DEF Next

\* An edit of a settled workflow leaves the finished build to be found.
LEMMA EditStep ==
  ASSUME TypeOK, IInv, ContextInv, EditInv, ~EditAnyTime, UserEdits
  PROVE  EditUnseen'
<1>. USE DEF wfVars, buildVars, clusterVars, podVars, budgetVars
<1>. DEFINE new == [wf EXCEPT !.flow = @ + 1]
<1>1. /\ wf.flow \in Nat /\ wf.flow # 0
      /\ new.flow = wf.flow + 1 /\ new.crc = wf.crc /\ new.conds = wf.conds
  BY BoundsAssumption DEF BoundsAssumption, TypeOK, WfTypeOK, Workflow, Flows, IInv, StatusInv
<1>2. wf' = new /\ wfCache' = wfCache /\ wk' = StaleWk(new) /\ Settled
  BY DEF UserEdits, PutWf
<1>3. wk'.pc = wk.pc
  BY <1>2 DEF StaleWk, TypeOK, WorkflowRequest
<1>4. UNCHANGED <<build, buildCache, bk>>
  BY DEF UserEdits
<1>. HIDE DEF new
<1>5. /\ wfCache = wf /\ buildCache = build /\ wf.crc = wf.flow /\ wk.pc = "idle" /\ bk.pc = "idle"
      /\ BothTrue(wf.conds) /\ build.phase = "Succeeded" /\ ~build.restart
  BY <1>2 DEF Settled, EditInv, FreshCopies, ContextInv, CachedBuildInv, BothTrue
<1>. QED
  BY <1>1, <1>2, <1>3, <1>4, <1>5 DEF EditUnseen

\* A build of the current flow stays one until the flow is edited.
LEMMA BuiltStep ==
  ASSUME TypeOK, IInv, ContextInv, EditInv, BuiltForFlow, ~EditAnyTime, [Next]_vars
  PROVE  BuiltForFlow' \/ EditUnseen'
<1>. USE DEF wfVars, buildVars, clusterVars, podVars, budgetVars
<1>a. ASSUME wf'.flow = wf.flow, wfCache' = wfCache \/ wfCache' = wf,
             \/ ctx' = wf.flow
             \/ ctx' = ctx /\ (build' = build \/ Schedulable(build'))
      PROVE  BuiltForFlow'
  BY <1>a DEF BuiltForFlow, Schedulable
<1>1. CASE UNCHANGED vars
  BY <1>1, <1>a DEF vars
<1>2. CASE WorkflowController
  BY <1>2, <1>a, WorkflowFrame, WorkflowReschedules, FlowKept DEF EditInv
<1>3. CASE BkSchedule
  <2>1. ctx' = ctx \/ ctx' = wfCache.flow
    BY <1>3 DEF BkSchedule
  <2>. QED
    BY <1>3, <1>a, <2>1 DEF BkSchedule, BuiltForFlow
<1>4. CASE BuildController /\ ~BkSchedule
  <2>1. build' = build \/ ctx = wf.flow
    <3>1. ASSUME bk.pc = "reconcileStatus", bk.fresh PROVE ctx = wf.flow
      BY <3>1 DEF BuiltForFlow, ContextInv, ReconcileInv, Schedulable
    <3>. QED
      BY <1>4, <3>1, BuildReconcilerWrites DEF EditInv
  <2>. QED
    BY <1>4, <1>a, <2>1, BuildFrame, FlowKept DEF EditInv
<1>5. CASE UserEdits
  BY <1>5, EditStep
<1>6. CASE UserRestarts
  <2>1. [build EXCEPT !.restart = TRUE].phase = build.phase /\ [build EXCEPT !.restart = TRUE].restart
    BY DEF TypeOK, BuildTypeOK, Build
  <2>2. build' = [build EXCEPT !.restart = TRUE] /\ build.phase # "absent"
    BY <1>6 DEF UserRestarts, PutBuild
  <2>. QED
    BY <1>6, <1>a, <2>1, <2>2 DEF UserRestarts, Schedulable
<1>7. CASE Environment /\ ~UserEdits /\ ~UserRestarts
  <2>1. UNCHANGED <<wf, build, ctx>> /\ (wfCache' = wfCache \/ wfCache' = wf)
    BY <1>7 DEF Environment, DeliverWf, DeliverBuild, DeliverPod, Resync,
       OperatorRestart, PodStarts, PodSucceeds, PodFails, PodEvicted, PodGone,
       DeploymentPodsStart, DeploymentDegrades, DeploymentDeleted
  <2>. QED
    BY <1>a, <2>1
<1>. QED
  BY <1>1, <1>2, <1>3, <1>4, <1>5, <1>6, <1>7 DEF Next

\* Since an edit the workflow reconciler writes nothing but the restart of the
\* build: a copy that has seen the edit goes there, any other conflicts.
LEMMA UnseenWorkflowStep ==
  ASSUME TypeOK, EditInv, EditUnseen, WorkflowController
  PROVE  BuiltForFlow' \/ EditUnseen'
<1>. USE DEF wfVars, buildVars, clusterVars, podVars, budgetVars
<1>a. /\ wk \in WorkflowRequest /\ wf.conds \in ConditionMap /\ wfCache.conds \in ConditionMap
      /\ build \in Build
  BY DEF TypeOK, WfTypeOK, BuildTypeOK, Workflow
<1>b. /\ wfCache' = wfCache /\ buildCache' = buildCache /\ ctx' = ctx
      /\ bk'.pc = bk.pc
  BY WorkflowFrame, WorkflowReschedules
<1>c. ASSUME wf' = wf, build' = build, wk'.pc # "idle" => UnseenRequest'
      PROVE  EditUnseen'
  BY <1>b, <1>c DEF EditUnseen
<1>1. CASE WfStart
  <2>1. Dispatch(Initialized(wfCache.conds)) = "deploy"
    BY <1>a, DispatchBothTrue DEF EditUnseen
  <2>2. /\ wk'.pc = "deploy" /\ wk'.flow = wfCache.flow /\ wk'.crc = wfCache.crc
        /\ wk'.fresh = wfFresh
    BY <1>1, <2>1 DEF WfStart, IdleWf
  <2>3. wf' = wf /\ build' = build
    BY <1>1 DEF WfStart
  <2>. QED
    BY <1>b, <1>c, <2>2, <2>3 DEF UnseenRequest, EditUnseen, EditInv, FreshCopies
<1>2. CASE ~WfStart
  <2>1. /\ wk.pc # "idle" /\ UnseenRequest
        /\ wk' = IdleWf \/ (wk'.flow = wk.flow /\ wk'.fresh = wk.fresh /\ wk'.crc = wk.crc)
    BY <1>2, <1>a, RequestKept DEF EditUnseen
  <2>2. CASE DeployRestart
    <3>1. wk.flow = wf.flow /\ wfCache.flow = wf.flow
      <4>1. wk.pc = "restart"
        BY <2>2, Zenon DEF DeployRestart
      <4>. QED
        BY <2>1, <4>1 DEF UnseenRequest
    <3>2. wf' = wf
      BY <2>2, Zenon DEF DeployRestart
    <3>3. CASE Schedulable(build')
      BY <1>b, <3>1, <3>2, <3>3 DEF BuiltForFlow, Schedulable
    <3>4. CASE ~Schedulable(build')
      <4>1. build' # [build EXCEPT !.phase = "None"]
        BY <1>a, <3>4 DEF Schedulable, Build
      <4>2. \/ PutBuild([build EXCEPT !.phase = "None"])
            \/ WfReturn(TRUE) /\ UNCHANGED buildVars
        BY <2>2, Zenon DEF DeployRestart
      <4>3. wk' = IdleWf /\ build' = build
        BY <4>1, <4>2 DEF PutBuild, WfReturn
      <4>. QED
        BY <1>c, <3>2, <4>3 DEF IdleWf
    <3>. QED
      BY <3>3, <3>4
  <2>3. CASE DeployCheck
    <3>1. IsWorkflowChanged(wk) => wk.flow = wf.flow /\ wfCache.flow = wf.flow
      BY <2>1 DEF UnseenRequest, IsWorkflowChanged
    <3>2. ~IsWorkflowChanged(wk) => wk.flow = wf.crc /\ ~wk.fresh
      BY <2>1 DEF UnseenRequest, IsWorkflowChanged, EditUnseen
    <3>3. build' = build
      <4>1. ASSUME NEW got, NEW fresh, GetOrCreateBuild(got, fresh) PROVE build' = build
        BY <4>1 DEF GetOrCreateBuild, EditUnseen
      <4>2. ASSUME GetOrCreateBuildErr PROVE build' = build
        BY <4>2 DEF GetOrCreateBuildErr
      <4>. QED
        BY <2>3, <4>1, <4>2, Zenon DEF DeployCheck
    <3>4. wf' = wf
      <4>1. UNCHANGED <<wfVars, bk, clusterVars, restarts>>
        BY <2>3, Zenon DEF DeployCheck
      <4>. QED
        BY <4>1
    <3>5. \/ wk'.pc = "idle"
          \/ wk'.pc = IF IsWorkflowChanged(wk) THEN "restart" ELSE "objects"
      <4>1. ASSUME NEW got, NEW fresh, NEW pc,
                   wk' = [wk EXCEPT !.pc = pc, !.build = got, !.buildFresh = fresh]
            PROVE  wk'.pc = pc
        BY <4>1, <1>a DEF WorkflowRequest
      <4>2. wk' = IdleWf \/ wk'.pc = IF IsWorkflowChanged(wk) THEN "restart" ELSE "objects"
        BY <2>3, <4>1, Zenon DEF DeployCheck, WfReturn
      <4>. QED
        BY <4>2 DEF IdleWf
    <3>6. \/ wk'.pc = "idle"
          \/ wk'.flow = wk.flow /\ wk'.fresh = wk.fresh /\ wk'.crc = wk.crc
      BY <2>1 DEF IdleWf
    <3>7. wk'.pc # "idle" => UnseenRequest'
      <4>1. CASE IsWorkflowChanged(wk)
        BY <1>b, <2>1, <3>1, <3>4, <3>5, <3>6, <4>1 DEF UnseenRequest
      <4>2. CASE ~IsWorkflowChanged(wk)
        BY <1>b, <2>1, <3>2, <3>4, <3>5, <3>6, <4>2 DEF UnseenRequest
      <4>. QED
        BY <4>1, <4>2
    <3>. QED
      BY <1>c, <3>3, <3>4, <3>7
  <2>4. CASE WfNoPlatform
    <3>1. wk' = IdleWf
      BY <2>1, <2>4 DEF WfNoPlatform, UnseenRequest, WfReturn
    <3>. QED
      BY <1>c, <2>4, <3>1 DEF WfNoPlatform, IdleWf
  <2>5. CASE DeployObjects \/ DeployObjectsErr \/ DeployObjectsFailed \/ DeploySync
             \/ DeployFinish \/ WfFinish
    <3>1. ~wk.fresh /\ wk.flow = wf.crc
      BY <2>1, <2>5 DEF UnseenRequest, DeployObjects, DeployObjectsErr, DeployObjectsFailed,
         DeploySync, DeployFinish, WfFinish
    <3>2. wf' = wf /\ build' = build
      BY <2>5, <3>1 DEF DeployObjects, DeployObjectsErr, DeployObjectsFailed, DeploySync,
         DeployFinish, WfFinish, WriteOk
    <3>3. \/ wk' = IdleWf
          \/ wk'.pc \in {"sync", "objectsFailed", "deployFinish", "finish"}
      <4>1. ASSUME NEW conds, NEW pc, WfGoto(pc, conds) PROVE wk'.pc = pc
        BY <4>1, <1>a DEF WfGoto, WorkflowRequest
      <4>2. ASSUME NEW conds, NEW requeue, WfFinishWith(conds, requeue) PROVE wk'.pc = "finish"
        BY <4>2, <1>a DEF WfFinishWith, WorkflowRequest
      <4>3. ASSUME NEW conds, DeployFinishWith(conds) PROVE wk'.pc = "deployFinish"
        BY <4>3, <1>a DEF DeployFinishWith, WorkflowRequest
      <4>4. \/ wk' = IdleWf
            \/ wk'.pc = "sync" \/ wk'.pc = "objectsFailed"
            \/ wk'.pc = "deployFinish" \/ wk'.pc = "finish"
        BY <2>5, <4>1, <4>2, <4>3, Zenon DEF DeployObjects, DeployObjectsErr,
           DeployObjectsFailed, DeploySync, DeployFinish, WfFinish, DeployFailed, WfReturn
      <4>. QED
        BY <4>4
    <3>. QED
      BY <1>b, <1>c, <2>1, <3>1, <3>2, <3>3 DEF UnseenRequest, IdleWf
  <2>6. ASSUME NewBuilderUpdate \/ NewBuilderProps \/ NewBuilderBuild \/ FollowBuild \/ FollowRollout
        PROVE  FALSE
    <3>1. wk.pc \in {"newBuilder", "newBuilderProps", "newBuilderBuild", "follow", "rollout"}
      BY <2>6 DEF NewBuilderUpdate, NewBuilderProps, NewBuilderBuild, FollowBuild, FollowRollout
    <3>. QED
      BY <2>1, <3>1 DEF UnseenRequest
  <2>. QED
    BY <1>2, <2>2, <2>3, <2>4, <2>5, <2>6 DEF WorkflowController
<1>. QED
  BY <1>1, <1>2

\* The build reconciler finds nothing to do and the user waits.
LEMMA UnseenStep ==
  ASSUME TypeOK, EditInv, EditUnseen, ~EditAnyTime, [Next]_vars
  PROVE  BuiltForFlow' \/ EditUnseen'
<1>. USE DEF wfVars, buildVars, clusterVars, podVars, budgetVars
<1>a. ASSUME wf' = wf, build' = build,
             \/ wfCache' = wfCache
             \/ wfCache' = wf,
             \/ buildCache' = buildCache
             \/ buildCache' = build,
             \/ bk' = bk
             \/ bk' = IdleBuild,
             \/ wk' = wk
             \/ wk' = IdleWf
      PROVE  EditUnseen'
  BY <1>a DEF EditUnseen, UnseenRequest, IdleBuild, IdleWf
<1>1. CASE UNCHANGED vars
  BY <1>1, <1>a DEF vars
<1>2. CASE WorkflowController
  BY <1>2, UnseenWorkflowStep
<1>3. CASE BuildController
  <2>1. BkStart
    BY <1>3 DEF EditUnseen, BuildController, BkSchedule, BkInitialize, BkScheduleStatus,
       BkAnnotation, BkSignal, BkReconcile, BkReconcileStatus
  <2>2. UNCHANGED bk
    BY <2>1 DEF BkStart, EditUnseen, Terminal
  <2>. QED
    BY <1>a, <2>1, <2>2 DEF BkStart
<1>4. CASE UserEdits \/ UserRestarts
  BY <1>4 DEF UserEdits, UserRestarts, Settled, EditUnseen
<1>5. CASE Environment /\ ~UserEdits /\ ~UserRestarts
  BY <1>5, <1>a DEF Environment, DeliverWf, DeliverBuild, DeliverPod, Resync,
     OperatorRestart, PodStarts, PodSucceeds, PodFails, PodEvicted, PodGone, DeploymentPodsStart,
     DeploymentDegrades, DeploymentDeleted
<1>. QED
  BY <1>1, <1>2, <1>3, <1>4, <1>5 DEF Next

\* The image of a workflow that has settled is built from the flow its status
\* speaks of, whatever fails or lags, as long as flows are edited and builds
\* restarted only once the workflow is settled, or after a failed build.
THEOREM ImageMatchesCRCTheorem ==
  ASSUME ~EditAnyTime
  PROVE  Spec => []ImageMatchesCRC
<1>. DEFINE Inv == IInv /\ ContextInv /\ EditInv
<1>1. Init => Inv
  <2>1. Init => EditInv
    BY DEF Init, EditInv, FreshCopies, BuiltForFlow, NewWorkflow, NoBuild, IdleWf, IdleBuild
  <2>. QED
    BY <2>1, InvariantInit, ContextInit
<1>2. Inv /\ [Next]_vars => Inv'
  <2>. SUFFICES ASSUME Inv, [Next]_vars PROVE Inv'
    OBVIOUS
  <2>1. TypeOK
    BY DEF IInv
  <2>2. EditInv'
    BY <2>1, FreshStep, ScheduledContext, BuiltStep, UnseenStep DEF EditInv
  <2>. QED
    BY <2>1, <2>2, InvariantStep, ContextStep
<1>3. Inv => ImageMatchesCRC
  BY DEF ImageMatchesCRC, Settled, EditInv, EditUnseen, BuiltForFlow, Schedulable, ContextInv,
     OwnPodInv, SucceededBuildPushedItsContext
<1>. QED
  BY <1>1, <1>2, <1>3, PTL DEF Spec

-----------------------------------------------------------------------------
(* The refinement: with the history of its builder pods (ContainerBuild)   *)
(* the build implements BuildLifecycle.                                    *)

\* What ended since the build began is known where the status comes from: a
\* pod that is the build's own has left its result, and so has the pod whose
\* end the build reconciler is about to report, of a build without a report.
\* Nothing is known of a build that overlooked an earlier pod.
ResultInv ==
  /\ void \in BOOLEAN /\ (overlooked => void)
  /\ ~void /\ PodIsItsOwn(build) =>
       /\ "Succeeded" \in {pod.state, podCache.state} => <<"succeeded", ctx>> \in ended
       /\ "Failed" \in {pod.state, podCache.state} => <<"failed", ctx>> \in ended
  /\ bk.pc = "reconcile" => bk.build.phase \notin Terminal
  /\ bk.pc = "reconcileStatus" => bk.build.phase # "absent"
  /\ bk.pc = "reconcileStatus" /\ bk.fresh =>
       /\ build.phase \notin Terminal
       /\ ~void /\ bk.build.phase = "Succeeded" => <<"succeeded", ctx>> \in ended
       /\ ~void /\ bk.build.phase = "Failed" => <<"failed", ctx>> \in ended

\* The history goes on as before.
HistoryKept ==
  /\ ended \subseteq ended'
  /\ void' \in BOOLEAN /\ (void => void') /\ (overlooked' => void')

\* Results are forgotten, and promises made again, only when the build begins.
LEMMA ResultsStay ==
  ASSUME TypeOK', History, ~BuildBegins
  PROVE  HistoryKept
<1>1. ended \subseteq ended'
  BY DEF History
<1>2. overlooked' \in BOOLEAN
  BY DEF TypeOK, ClusterTypeOK
<1>3. void' = (void \/ overlooked')
  BY Zenon DEF History
<1>. QED
  BY <1>1, <1>2, <1>3 DEF HistoryKept

\* A step that leaves the build and its context alone, in which no pod ends
\* and no request reconciles the build, keeps the invariant.
LEMMA ResultKept ==
  ASSUME ResultInv, UNCHANGED <<build, ctx>>, HistoryKept,
         pod'.state = pod.state \/ pod'.state \notin {"Succeeded", "Failed"},
         podCache' \in {podCache, pod},
         bk' = bk \/ bk'.pc \notin {"reconcile", "reconcileStatus"}
  PROVE  ResultInv'
<1>1. CASE bk' = bk
  BY <1>1 DEF ResultInv, PodIsItsOwn, HistoryKept
<1>2. CASE bk'.pc \notin {"reconcile", "reconcileStatus"}
  BY <1>2 DEF ResultInv, PodIsItsOwn, HistoryKept
<1>. QED
  BY <1>1, <1>2

\* A build to be scheduled promises nothing, and whoever writes it conflicts
\* with the build reconciler.
LEMMA ResultsRescheduled ==
  ASSUME ResultInv, UNCHANGED <<ctx, pod, podCache>>, HistoryKept,
         NEW new, Schedulable(new), build' = new,
         bk'.pc = bk.pc, bk'.build = bk.build, bk'.fresh => bk.fresh,
         new # build /\ bk.pc = "reconcileStatus" => ~bk'.fresh
  PROVE  ResultInv'
BY DEF ResultInv, PodIsItsOwn, Schedulable, HistoryKept

\* The workflow reconciler and the user ask for a build.
LEMMA AskingResults ==
  ASSUME TypeOK, ContextInv, ResultInv, WorkflowController \/ UserRestarts, HistoryKept
  PROVE  ResultInv'
<1>1. UNCHANGED <<ctx, pod, podCache>>
  BY WorkflowFrame DEF UserRestarts, clusterVars, podVars
<1>2. CASE UNCHANGED <<buildVars, bk>>
  BY <1>1, <1>2, ResultKept DEF buildVars
<1>3. CASE UNCHANGED bk /\ build.phase = "absent" /\ PutBuild(NewBuild)
  <2>1. Schedulable(NewBuild)
    BY DEF Schedulable, NewBuild, NoBuild
  <2>2. bk.pc = "reconcileStatus" => ~bk.fresh
    BY <1>3 DEF ContextInv, ReconcileInv
  <2>. QED
    BY <1>1, <1>3, <2>1, <2>2, ResultsRescheduled DEF PutBuild
<1>4. ASSUME NEW new, Schedulable(new), PutBuild(new), bk' = StaleBk(new)
      PROVE  ResultInv'
  <2>1. /\ bk'.pc = bk.pc /\ bk'.build = bk.build
        /\ bk'.fresh => bk.fresh
        /\ new # build => ~bk'.fresh
    BY <1>4 DEF TypeOK, StaleBk, BuildRequest
  <2>. QED
    BY <1>1, <1>4, <2>1, ResultsRescheduled DEF PutBuild
<1>5. Schedulable([build EXCEPT !.phase = "None"])
  BY DEF TypeOK, BuildTypeOK, Build, Schedulable
<1>6. CASE UserRestarts
  <2>. DEFINE new == [build EXCEPT !.restart = TRUE]
  <2>1. PutBuild(new) /\ bk' = StaleBk(new) /\ build.phase # "absent"
    BY <1>6, Zenon DEF UserRestarts
  <2>2. Schedulable(new)
    BY <2>1 DEF TypeOK, BuildTypeOK, Build, Schedulable
  <2>. QED
    BY <1>4, <2>1, <2>2
<1>. QED
  BY <1>2, <1>3, <1>4, <1>5, <1>6, WorkflowWritesBuild

\* A pod that ends leaves its result, which is of the context if it is the
\* build's own.
LEMMA PodResults ==
  ASSUME TypeOK, ContextInv, ResultInv, History, HistoryKept, ~BuildBegins,
         PodStarts \/ PodSucceeds \/ PodFails \/ PodEvicted \/ PodGone
  PROVE  ResultInv'
<1>. USE DEF wfVars, buildVars, clusterVars, podVars, budgetVars
<1>a. pod \in Pod
  BY DEF TypeOK, ClusterTypeOK
<1>b. UNCHANGED <<build, bk, ctx, podCache>>
  BY DEF PodStarts, PodSucceeds, PodFails, PodEvicted, PodGone, PutPod
<1>1. CASE PodStarts \/ PodEvicted \/ PodGone
  <2>1. pod'.state = pod.state \/ pod'.state \notin {"Succeeded", "Failed"}
    <3>1. CASE PodStarts
      BY <3>1, <1>a DEF PodStarts, PutPod, Pod
    <3>2. CASE PodEvicted
      BY <3>2, <1>a DEF PodEvicted, PutPod, Deleted, Pod
    <3>3. CASE PodGone
      BY <3>3 DEF PodGone, PutPod, NoPod
    <3>. QED
      BY <1>1, <3>1, <3>2, <3>3
  <2>. QED
    BY <1>b, <2>1, ResultKept
<1>2. CASE PodSucceeds \/ PodFails
  <2>1. pod.state = "Running" /\ pod'.state \in {"Succeeded", "Failed"}
    BY <1>2, <1>a DEF PodSucceeds, PodFails, PutPod, Pod
  <2>2. ended' = ended \cup {PodResult}
    BY <2>1 DEF History, PodEnds
  <2>3. ~void /\ PodIsItsOwn(build) => pod.bits = ctx
    BY <2>1 DEF ContextInv, OwnPodInv, PodMatchesContext, ResultInv
  <2>4. ~void /\ PodIsItsOwn(build) =>
          /\ pod'.state = "Succeeded" => <<"succeeded", ctx>> \in ended'
          /\ pod'.state = "Failed" => <<"failed", ctx>> \in ended'
    BY <2>2, <2>3 DEF PodResult
  <2>. QED
    BY <1>b, <2>2, <2>4 DEF ResultInv, PodIsItsOwn, HistoryKept
<1>. QED
  BY <1>1, <1>2

\* What the status of a scheduled build is written from, and what is written.
LEMMA ScheduledWrite ==
  ASSUME TypeOK, ContextInv, BuildScheduled
  PROVE  /\ bk.pc = "scheduleStatus" /\ bk.fresh /\ build' = bk.build
         /\ UNCHANGED <<ctx, pod, podCache, overlooked>>
         /\ bk.build.phase \in {"Scheduling", "Initialization"}
         /\ bk.build.phase = "Scheduling" /\ ~overlooked => NoEarlierPod
         /\ bk'.pc \notin {"reconcile", "reconcileStatus"}
<1>. USE DEF clusterVars, podVars
<1>1. bk.pc = "scheduleStatus" /\ bk.fresh /\ UNCHANGED clusterVars
  BY DEF BuildScheduled, BkScheduleStatus, WriteOk
<1>2. build' = bk.build
  <2>1. ~WriteErr(bk.fresh)
    BY DEF BuildScheduled, WriteOk, NoFault, WriteErr, Fault, TypeOK, BudgetTypeOK
  <2>2. PutBuild(bk.build)
    BY <2>1, Zenon DEF BuildScheduled, BkScheduleStatus
  <2>. QED
    BY <2>2 DEF PutBuild
<1>3. bk'.pc \notin {"reconcile", "reconcileStatus"}
  <2>1. CASE bk' = [bk EXCEPT !.pc = "annotation"]
    BY <2>1 DEF TypeOK, BuildRequest
  <2>2. CASE BkReturn(TRUE)
    BY <2>2 DEF BkReturn, IdleBuild
  <2>. QED
    BY <2>1, <2>2, Zenon DEF BuildScheduled, BkScheduleStatus
<1>. QED
  BY <1>1, <1>2, <1>3 DEF ContextInv, ScheduleInv

\* The build begins with no pod, or with one that is not its own.
LEMMA BeginningResults ==
  ASSUME TypeOK, ContextInv, History, BuildBegins
  PROVE  ResultInv'
<1>1. /\ bk.build.phase = "Scheduling" => NoEarlierPod
      /\ build' = bk.build /\ UNCHANGED <<ctx, pod, podCache, overlooked>>
      /\ bk.build.phase \in {"Scheduling", "Initialization"}
      /\ bk'.pc \notin {"reconcile", "reconcileStatus"}
  BY ScheduledWrite DEF BuildBegins
<1>2. void' = FALSE /\ ~overlooked'
  BY <1>1 DEF History, BuildBegins
<1>. QED
  BY <1>1, <1>2 DEF ResultInv, PodIsItsOwn, NoEarlierPod

\* A build scheduled with an earlier pod overlooked stays without promise.
LEMMA OverlookingResults ==
  ASSUME TypeOK, ContextInv, ResultInv, HistoryKept, BuildScheduled, ~BuildBegins
  PROVE  ResultInv'
<1>1. overlooked /\ bk'.pc \notin {"reconcile", "reconcileStatus"}
  BY ScheduledWrite DEF BuildBegins
<1>. QED
  BY <1>1 DEF ResultInv, HistoryKept

\* A request starts to reconcile only a build that has not reported.
LEMMA BkStartResults ==
  ASSUME ResultInv, BkStart, HistoryKept
  PROVE  ResultInv'
<1>. USE DEF wfVars, buildVars, clusterVars, podVars, budgetVars
<1>1. UNCHANGED <<build, ctx, pod, podCache>>
  BY DEF BkStart
<1>2. CASE bk'.pc = "reconcile" /\ bk' # bk
  <2>1. bk'.build.phase \notin Terminal
    BY <1>2 DEF BkStart, IdleBuild
  <2>. QED
    BY <1>1, <1>2, <2>1 DEF ResultInv, PodIsItsOwn, HistoryKept
<1>3. CASE bk' = bk \/ bk'.pc = "schedule"
  BY <1>1, <1>3, ResultKept
<1>4. bk' = bk \/ bk'.pc \in {"schedule", "reconcile"}
  BY DEF BkStart, IdleBuild
<1>. QED
  BY <1>2, <1>3, <1>4

\* The context changes only while the build has no pod of its own.
LEMMA BkScheduleResults ==
  ASSUME TypeOK, ContextInv, ResultInv, BkSchedule, HistoryKept
  PROVE  ResultInv'
<1>. USE DEF wfVars, buildVars, clusterVars, podVars, budgetVars
<1>1. bk.pc = "schedule" /\ UNCHANGED <<build, pod, podCache>>
  BY DEF BkSchedule
<1>2. ~void /\ PodIsItsOwn(build) => NoEarlierPod
  BY <1>1 DEF ContextInv, OwnPodInv, ScheduleInv, ScheduledSince, Schedulable, PodIsItsOwn,
     ResultInv
<1>3. bk'.pc \in {"initialize", "idle"}
  <2>1. CASE BkReturn(TRUE)
    BY <2>1 DEF BkReturn, IdleBuild
  <2>2. CASE ~BkReturn(TRUE)
    BY <2>2 DEF BkSchedule, TypeOK, BuildRequest
  <2>. QED
    BY <2>1, <2>2
<1>. QED
  BY <1>1, <1>2, <1>3 DEF ResultInv, PodIsItsOwn, NoEarlierPod, HistoryKept

\* Deleting a pod that there may be leaves what it did.
LEMMA BkInitializeResults ==
  ASSUME TypeOK, ResultInv, BkInitialize, HistoryKept
  PROVE  ResultInv'
<1>. USE DEF wfVars, buildVars, clusterVars, podVars, budgetVars
<1>1. UNCHANGED <<build, ctx>>
  BY DEF BkInitialize
<1>2. CASE BkReturn(TRUE) /\ UNCHANGED podVars
  <2>1. bk'.pc = "idle"
    BY <1>2 DEF BkReturn, IdleBuild
  <2>. QED
    BY <1>1, <1>2, <2>1, ResultKept
<1>3. ASSUME NEW gone \in BOOLEAN, InitializePod(gone),
             bk' = [bk EXCEPT !.pc = "scheduleStatus",
                              !.build.phase = IF gone THEN "Scheduling" ELSE "Initialization"]
      PROVE  ResultInv'
  <2>1. bk'.pc = "scheduleStatus"
    BY <1>3 DEF TypeOK, BuildRequest
  <2>2. pod'.state = pod.state /\ podCache' = podCache
    BY <1>3 DEF InitializePod, PutPod, Deleted, TypeOK, ClusterTypeOK, Pod
  <2>. QED
    BY <1>1, <2>1, <2>2, ResultKept
<1>. QED
  BY <1>2, <1>3, Zenon DEF BkInitialize

\* The annotation goes from a build that is being scheduled.
LEMMA BkAnnotationResults ==
  ASSUME TypeOK, ContextInv, ResultInv, BkAnnotation, HistoryKept
  PROVE  ResultInv'
<1>. USE DEF wfVars, buildVars, clusterVars, podVars, budgetVars
<1>. DEFINE cleared == AnnotationCleared(bk.build)
<1>1. UNCHANGED <<ctx, pod, podCache>>
  BY DEF BkAnnotation
<1>2. cleared.phase = bk.build.phase
  BY DEF TypeOK, BuildRequest, Build, AnnotationCleared
<1>. HIDE DEF cleared
<1>3. CASE BkReturn(TRUE) /\ UNCHANGED buildVars
  <2>1. bk'.pc = "idle"
    BY <1>3 DEF BkReturn, IdleBuild
  <2>. QED
    BY <1>1, <1>3, <2>1, ResultKept
<1>4. CASE bk.fresh /\ PutBuild(cleared) /\ bk' = [bk EXCEPT !.pc = "signal", !.build = cleared]
  <2>1. bk'.pc = "signal"
    BY <1>4 DEF TypeOK, BuildRequest
  <2>2. /\ cleared.phase \in {"Scheduling", "Initialization"}
        /\ cleared.phase = "Scheduling" /\ ~void => NoEarlierPod
    BY <1>2, <1>4 DEF BkAnnotation, ContextInv, ScheduleInv, ResultInv
  <2>. QED
    BY <1>1, <1>4, <2>1, <2>2 DEF ResultInv, PodIsItsOwn, PutBuild, NoEarlierPod, HistoryKept
<1>. QED
  BY <1>3, <1>4 DEF BkAnnotation, WriteOk, cleared

\* What the build reconciler is about to report it has read from a pod of the
\* build that has ended.
LEMMA BkReconcileResults ==
  ASSUME TypeOK, ContextInv, ResultInv, BkReconcile, HistoryKept
  PROVE  ResultInv'
<1>. USE DEF wfVars, buildVars, clusterVars, podVars, budgetVars
<1>a. bk \in BuildRequest /\ bk.build \in Build /\ pod \in Pod
  BY DEF TypeOK, BuildRequest, ClusterTypeOK
<1>0. UNCHANGED <<build, ctx>> /\ bk.pc = "reconcile"
  <2>1. /\ bk.pc = "reconcile"
        /\ UNCHANGED <<wfVars, buildVars, wk, props, ctx, registry, deploy, restarts>>
    BY Zenon DEF BkReconcile
  <2>. QED
    BY <2>1
<1>1. CASE BkReturn(TRUE) /\ UNCHANGED podVars
  <2>1. bk'.pc = "idle"
    BY <1>1 DEF BkReturn, IdleBuild
  <2>. QED
    BY <1>0, <1>1, <2>1, ResultKept
<1>2. ASSUME NEW phase \in Phases,
             \/ WaitForPod(phase)
             \/ ScheduleBuild(phase)
             \/ MonitorPod(phase)
             \/ bk.build.phase = "Interrupted" /\ phase = "Interrupted" /\ UNCHANGED podVars,
             bk' = [bk EXCEPT !.pc = "reconcileStatus", !.build.phase = phase,
                              !.build.image = (phase = "Succeeded")]
      PROVE  ResultInv'
  <2>1. bk'.pc = "reconcileStatus" /\ bk'.fresh = bk.fresh /\ bk'.build.phase = phase
    BY <1>2, <1>a DEF BuildRequest, Build
  <2>2. /\ bk.build.phase \notin Terminal /\ ~bk.build.restart
        /\ bk.fresh => build = bk.build
    BY <1>0 DEF ResultInv, ContextInv, ReconcileInv
  <2>3. pod'.state \in {pod.state, "Pending"} /\ podCache' = podCache
    <3>1. CASE WaitForPod(phase)
      <4>1. \E gone \in BOOLEAN : InitializePod(gone)
        BY <3>1, Zenon DEF WaitForPod
      <4>. QED
        BY <4>1, <1>a DEF InitializePod, PutPod, Deleted, Pod
    <3>2. CASE ~WaitForPod(phase)
      BY <1>2, <3>2 DEF ScheduleBuild, MonitorPod, PutPod, NoPod
    <3>. QED
      BY <3>1, <3>2
  <2>4. /\ phase = "Succeeded" =>
             podCache.state = "Succeeded" /\ bk.build.phase \in {"Pending", "Running"}
        /\ phase = "Failed" =>
             podCache.state = "Failed" /\ bk.build.phase \in {"Pending", "Running"}
        /\ phase # "absent"
    BY <1>2, <2>2 DEF WaitForPod, ScheduleBuild, MonitorPod, MonitoredPhases, Terminal
  <2>5. ASSUME bk.fresh, ~void
        PROVE  /\ phase = "Succeeded" => <<"succeeded", ctx>> \in ended
               /\ phase = "Failed" => <<"failed", ctx>> \in ended
    BY <2>2, <2>4, <2>5 DEF ResultInv, PodIsItsOwn
  <2>. QED
    BY <1>0, <2>1, <2>2, <2>3, <2>4, <2>5 DEF ResultInv, PodIsItsOwn, HistoryKept
<1>3. \/ BkReturn(TRUE) /\ UNCHANGED podVars
      \/ \E phase \in Phases :
           /\ \/ WaitForPod(phase)
              \/ ScheduleBuild(phase)
              \/ MonitorPod(phase)
              \/ bk.build.phase = "Interrupted" /\ phase = "Interrupted" /\ UNCHANGED podVars
           /\ bk' = [bk EXCEPT !.pc = "reconcileStatus", !.build.phase = phase,
                               !.build.image = (phase = "Succeeded")]
  BY Zenon DEF BkReconcile
<1>. QED
  BY <1>1, <1>2, <1>3, Zenon

\* A report that is written follows from what has ended.
LEMMA BkReconcileStatusResults ==
  ASSUME TypeOK, ContextInv, ResultInv, BkReconcileStatus, HistoryKept
  PROVE  ResultInv'
<1>. USE DEF wfVars, buildVars, clusterVars, podVars, budgetVars
<1>0. UNCHANGED <<ctx, pod, podCache>> /\ bk'.pc = "idle" /\ bk.pc = "reconcileStatus"
  BY DEF BkReconcileStatus, BkReturn, IdleBuild
<1>1. CASE UNCHANGED buildVars
  BY <1>0, <1>1, ResultKept
<1>2. CASE bk.fresh /\ PutBuild(bk.build)
  <2>1. /\ bk.build.phase = "Scheduling" /\ ~void => NoEarlierPod
        /\ bk.build.phase \in {"Pending", "Running", "Succeeded"} => PodIsItsOwn(build)
    BY <1>0, <1>2 DEF ContextInv, ReconcileInv, ResultInv
  <2>. QED
    BY <1>0, <1>2, <2>1 DEF ResultInv, PodIsItsOwn, PutBuild, NoEarlierPod, HistoryKept
<1>. QED
  BY <1>1, <1>2 DEF BkReconcileStatus, WriteOk

\* Every step keeps the results that reports rest on.
LEMMA ResultStep ==
  ASSUME TypeOK, TypeOK', ContextInv, ResultInv, [ContainerNext]_containerVars
  PROVE  ResultInv'
<1>. USE DEF wfVars, buildVars, clusterVars, podVars, budgetVars
<1>1. CASE UNCHANGED containerVars
  <2>1. UNCHANGED <<build, ctx, pod, podCache, overlooked, bk, ended, void>>
    BY <1>1 DEF containerVars, vars
  <2>. QED
    BY <2>1 DEF ResultInv, PodIsItsOwn
<1>2. CASE ContainerNext /\ BuildBegins
  BY <1>2, BeginningResults DEF ContainerNext
<1>3. CASE ContainerNext /\ ~BuildBegins
  <2>1. History /\ Next /\ HistoryKept
    BY <1>3, ResultsStay DEF ContainerNext
  <2>2. CASE WorkflowController \/ UserRestarts
    BY <2>1, <2>2, AskingResults
  <2>3. CASE BuildScheduled
    BY <1>3, <2>1, <2>3, OverlookingResults
  <2>4. CASE BkScheduleStatus /\ ~BuildScheduled
    <3>1. BkReturn(TRUE) /\ UNCHANGED buildVars /\ UNCHANGED clusterVars
      BY <2>4, Zenon DEF BuildScheduled, BkScheduleStatus
    <3>. QED
      BY <2>1, <3>1, ResultKept DEF BkReturn, IdleBuild
  <2>5. CASE BkSignal
    BY <2>1, <2>5, ResultKept DEF BkSignal, BkReturn, IdleBuild
  <2>6. CASE BuildController /\ ~BkScheduleStatus /\ ~BkSignal
    BY <2>1, <2>6, BkStartResults, BkScheduleResults, BkInitializeResults, BkAnnotationResults,
       BkReconcileResults, BkReconcileStatusResults DEF BuildController
  <2>7. CASE PodStarts \/ PodSucceeds \/ PodFails \/ PodEvicted \/ PodGone
    BY <1>3, <2>1, <2>7, PodResults
  <2>8. CASE DeliverWf \/ DeliverBuild \/ DeliverPod \/ Resync \/ OperatorRestart
             \/ DeploymentPodsStart \/ DeploymentDegrades \/ DeploymentDeleted \/ UserEdits
    <3>1. /\ UNCHANGED <<build, ctx, pod>> /\ podCache' \in {podCache, pod}
          /\ bk' = bk \/ bk' = IdleBuild
      BY <2>8 DEF DeliverWf, DeliverBuild, DeliverPod, Resync, OperatorRestart,
         DeploymentPodsStart, DeploymentDegrades, DeploymentDeleted, UserEdits
    <3>. QED
      BY <2>1, <3>1, ResultKept DEF IdleBuild
  <2>. QED
    BY <2>1, <2>2, <2>3, <2>4, <2>5, <2>6, <2>7, <2>8 DEF Next, Environment
<1>. QED
  BY <1>1, <1>2, <1>3

\* A build stays without promise, or with it, as long as no pod is waited for.
LEMMA VoidKept ==
  ASSUME TypeOK, ResultInv, History, ~BuildBegins, UNCHANGED overlooked
  PROVE  void' = void
<1>1. void' = (void \/ overlooked')
  BY Zenon DEF History
<1>2. void \in BOOLEAN /\ overlooked \in BOOLEAN /\ (overlooked => void)
  BY DEF ResultInv, TypeOK, ClusterTypeOK
<1>. QED
  BY <1>1, <1>2

\* A build that is not written reports what it did ...
LEMMA ReportKept ==
  ASSUME UNCHANGED <<build, contextOf, ended, void>>
  PROVE  UNCHANGED Lifecycle!lifecycleVars
BY DEF Lifecycle!lifecycleVars, Asked, Reported

\* ... and a build without promise reports nothing, whatever is written.
LEMMA NothingPromised ==
  ASSUME void, void', UNCHANGED ended
  PROVE  UNCHANGED Lifecycle!lifecycleVars
<1>1. Asked = TRUE /\ Asked' = TRUE /\ Reported' = Reported
  BY DEF Asked, Reported
<1>. QED
  BY <1>1 DEF Lifecycle!lifecycleVars

\* As long as nobody writes the build or waits for a pod, all that can happen
\* to it is that a builder pod ends.
LEMMA UnwrittenStep ==
  ASSUME TypeOK, PodInv, History, UNCHANGED <<build, void>>, ~BuildScheduled, ~BuildMoves
  PROVE  Lifecycle!Next \/ UNCHANGED Lifecycle!lifecycleVars
<1>0. ~BuildBegins
  BY DEF BuildBegins
<1>1. UNCHANGED contextOf
  BY DEF History
<1>2. CASE PodEnds
  <2>1. ended' = ended \cup {PodResult}
    BY <1>0, <1>2 DEF History
  <2>2. pod.bits \in 1..MaxFlow
    BY <1>2, BoundsAssumption DEF PodEnds, PodInv, TypeOK, ClusterTypeOK, Pod, Flows
  <2>3. PodResult \in Lifecycle!Results
    BY <2>2 DEF PodResult, Lifecycle!Results
  <2>4. UNCHANGED <<Asked, Reported>>
    BY <1>1 DEF Asked, Reported
  <2>. QED
    BY <2>1, <2>3, <2>4 DEF Lifecycle!Next, Lifecycle!JobsEnd
<1>3. CASE ~PodEnds
  BY <1>0, <1>1, <1>3, ReportKept DEF History
<1>. QED
  BY <1>2, <1>3

\* A build that overlooks an earlier pod takes back its promise.
LEMMA OverlookStep ==
  ASSUME TypeOK, ResultInv, History, BkInitialize \/ BkReconcile
  PROVE  Lifecycle!Next \/ UNCHANGED Lifecycle!lifecycleVars
<1>. USE DEF wfVars, buildVars, clusterVars, podVars, budgetVars
<1>1. bk.pc \in {"initialize", "reconcile"} /\ UNCHANGED build
  <2>1. /\ bk.pc \in {"initialize", "reconcile"}
        /\ UNCHANGED <<wfVars, buildVars, wk, props, ctx, registry, deploy, restarts>>
    BY Zenon DEF BkInitialize, BkReconcile
  <2>. QED
    BY <2>1
<1>2. ~BuildScheduled /\ ~BuildBegins /\ ~BuildMoves
  BY <1>1 DEF BuildScheduled, BuildBegins, BuildMoves, BkScheduleStatus, BkReconcileStatus
<1>3. ~PodEnds
  <2>1. pod' = Deleted => pod'.state = pod.state
    BY DEF Deleted, TypeOK, ClusterTypeOK, Pod
  <2>2. pod'.state \in {pod.state, "Pending"}
    BY <2>1, PodWrites DEF NoPod
  <2>. QED
    BY <2>2 DEF PodEnds
<1>4. UNCHANGED <<ended, contextOf>>
  BY <1>2, <1>3 DEF History
<1>5. void' = (void \/ overlooked')
  BY <1>2, Zenon DEF History
<1>6. CASE overlooked'
  <2>1. Asked' = TRUE /\ Reported' = Lifecycle!None
    BY <1>5, <1>6 DEF Asked, Reported, Lifecycle!None
  <2>. QED
    BY <1>4, <2>1 DEF Lifecycle!Next, Lifecycle!Withdraw
<1>7. CASE ~overlooked'
  <2>1. void' = void
    BY <1>5, <1>7 DEF ResultInv
  <2>. QED
    BY <1>1, <1>4, <2>1, ReportKept
<1>. QED
  BY <1>6, <1>7

\* The status of a scheduled build is the beginning, of a build asked for,
\* unless an earlier pod was overlooked.
LEMMA BeginStep ==
  ASSUME TypeOK, ContextInv, ResultInv, History, BuildScheduled
  PROVE  Lifecycle!Begin \/ UNCHANGED Lifecycle!lifecycleVars
<1>1. /\ bk.pc = "scheduleStatus" /\ bk.fresh /\ build' = bk.build
      /\ bk.build.phase \in {"Scheduling", "Initialization"}
      /\ UNCHANGED <<pod, overlooked>>
  BY ScheduledWrite
<1>2. CASE BuildBegins
  <2>1. Asked
    BY <1>1 DEF ContextInv, ScheduleInv, Schedulable, Asked
  <2>2. void' = FALSE
    BY <1>2 DEF History
  <2>3. Reported' = Lifecycle!Running
    BY <1>1, <2>2 DEF Reported, Lifecycle!Running
  <2>4. Asked' \in BOOLEAN
    BY <1>1, <2>2 DEF Asked, TypeOK, BuildRequest, Build
  <2>5. ended' = {}
    BY <1>2 DEF History
  <2>. QED
    BY <2>1, <2>3, <2>4, <2>5 DEF Lifecycle!Begin
<1>3. CASE ~BuildBegins
  <2>1. void /\ void'
    BY <1>1, <1>3, VoidKept DEF BuildBegins, ResultInv
  <2>2. UNCHANGED ended
    BY <1>1, <1>3 DEF History, PodEnds
  <2>. QED
    BY <2>1, <2>2, NothingPromised
<1>. QED
  BY <1>2, <1>3

\* The status of a build that is reconciled is a report of what has ended, or
\* says that the build goes on or has to be scheduled again.
LEMMA ReportStep ==
  ASSUME TypeOK, ContextInv, ResultInv, History, BuildMoves
  PROVE  Lifecycle!Next \/ UNCHANGED Lifecycle!lifecycleVars
<1>. USE DEF wfVars, buildVars, clusterVars, podVars, budgetVars
<1>1. bk.pc = "reconcileStatus" /\ bk.fresh /\ UNCHANGED <<ctx, pod, overlooked>>
  BY DEF BuildMoves, BkReconcileStatus, WriteOk
<1>2. build' = bk.build
  <2>1. ~WriteErr(bk.fresh)
    BY DEF BuildMoves, WriteOk, NoFault, WriteErr, Fault, TypeOK, BudgetTypeOK
  <2>2. PutBuild(bk.build)
    BY <2>1, Zenon DEF BuildMoves, BkReconcileStatus
  <2>. QED
    BY <2>2 DEF PutBuild
<1>3. ~BuildScheduled /\ ~BuildBegins /\ ~PodEnds
  BY <1>1 DEF BuildScheduled, BuildBegins, BkScheduleStatus, PodEnds
<1>4. ended' = ended /\ contextOf' = ctx
  BY <1>3 DEF History
<1>5. void' = void
  BY <1>1, <1>3, VoidKept
<1>6. CASE void
  BY <1>4, <1>5, <1>6, NothingPromised
<1>7. CASE ~void
  <2>1. Asked = FALSE /\ Reported = Lifecycle!Running
    BY <1>1, <1>7 DEF Asked, Reported, Lifecycle!Running, ContextInv, ReconcileInv, ResultInv,
       Terminal
  <2>2. ~build'.restart /\ build'.phase # "absent"
    BY <1>1, <1>2 DEF ContextInv, ReconcileInv, ResultInv
  <2>3. CASE build'.phase = "None"
    <3>1. Asked' = TRUE /\ Reported' = Lifecycle!None
      BY <2>3 DEF Asked, Reported, Lifecycle!None
    <3>. QED
      BY <1>4, <3>1 DEF Lifecycle!Next, Lifecycle!Withdraw
  <2>4. CASE build'.phase # "None"
    <3>1. Asked' = Asked
      BY <1>5, <1>7, <2>1, <2>2, <2>4 DEF Asked
    <3>2. CASE bk.build.phase \in {"Succeeded", "Failed"}
      <4>1. Reported' \in ended
        BY <1>1, <1>2, <1>4, <1>5, <1>7, <3>2 DEF Reported, ResultInv
      <4>. QED
        BY <1>4, <2>1, <3>1, <4>1 DEF Lifecycle!Next, Lifecycle!Report
    <3>3. CASE bk.build.phase \notin {"Succeeded", "Failed"}
      <4>1. Reported' = Reported
        BY <1>2, <1>5, <1>7, <2>1, <2>2, <2>4, <3>3 DEF Reported, Lifecycle!Running
      <4>. QED
        BY <1>4, <3>1, <4>1 DEF Lifecycle!lifecycleVars
    <3>. QED
      BY <3>2, <3>3
  <2>. QED
    BY <2>3, <2>4
<1>. QED
  BY <1>6, <1>7

\* The annotation is taken from a build that has begun.
LEMMA AcknowledgeStep ==
  ASSUME TypeOK, ContextInv, ResultInv, History, BkAnnotation
  PROVE  Lifecycle!Next \/ UNCHANGED Lifecycle!lifecycleVars
<1>. USE DEF wfVars, buildVars, clusterVars, podVars, budgetVars
<1>. DEFINE cleared == AnnotationCleared(bk.build)
<1>1. bk.pc = "annotation" /\ UNCHANGED <<pod, overlooked>>
  BY DEF BkAnnotation
<1>2. ~BuildScheduled /\ ~BuildBegins /\ ~BuildMoves /\ ~PodEnds
  BY <1>1 DEF BuildScheduled, BuildBegins, BuildMoves, BkScheduleStatus, BkReconcileStatus, PodEnds
<1>3. UNCHANGED <<ended, contextOf, void>>
  BY <1>1, <1>2, VoidKept DEF History
<1>4. cleared.phase = bk.build.phase /\ ~cleared.restart
  BY DEF TypeOK, BuildRequest, Build, AnnotationCleared
<1>. HIDE DEF cleared
<1>5. CASE UNCHANGED buildVars
  BY <1>3, <1>5, ReportKept
<1>6. CASE void
  BY <1>3, <1>6, NothingPromised
<1>7. CASE bk.fresh /\ PutBuild(cleared) /\ ~void
  <2>1. build = bk.build /\ build' = cleared /\ bk.build.phase \in {"Scheduling", "Initialization"}
    BY <1>1, <1>7 DEF ContextInv, ScheduleInv, PutBuild
  <2>2. Asked' = FALSE /\ Reported = Lifecycle!Running /\ Reported' = Reported
    BY <1>3, <1>4, <1>7, <2>1 DEF Asked, Reported, Lifecycle!Running
  <2>. QED
    BY <1>3, <2>2 DEF Lifecycle!Next, Lifecycle!Acknowledge
<1>. QED
  BY <1>5, <1>6, <1>7 DEF BkAnnotation, WriteOk, cleared

\* The workflow controller creates the build, which asks for it, or takes its
\* phase away, and with it the report ...
LEMMA WithdrawStep ==
  ASSUME TypeOK, UNCHANGED <<ended, contextOf, void>>, WorkflowController
  PROVE  Lifecycle!Next \/ UNCHANGED Lifecycle!lifecycleVars
<1>1. CASE UNCHANGED build
  BY <1>1, ReportKept
<1>2. CASE build.phase = "absent" /\ PutBuild(NewBuild)
  <2>1. build'.phase = "None"
    BY <1>2 DEF PutBuild, NewBuild, NoBuild
  <2>2. UNCHANGED <<Asked, Reported>>
    BY <1>2, <2>1 DEF Asked, Reported
  <2>. QED
    BY <2>2 DEF Lifecycle!lifecycleVars
<1>3. CASE PutBuild([build EXCEPT !.phase = "None"])
  <2>1. build'.phase = "None"
    BY <1>3 DEF PutBuild, TypeOK, BuildTypeOK, Build
  <2>2. Asked' = TRUE /\ Reported' = Lifecycle!None
    BY <2>1 DEF Asked, Reported, Lifecycle!None
  <2>. QED
    BY <2>2 DEF Lifecycle!Next, Lifecycle!Withdraw
<1>. QED
  BY <1>1, <1>2, <1>3, WorkflowWritesBuild DEF buildVars

\* ... while the user asks beside it.
LEMMA AskStep ==
  ASSUME TypeOK, UNCHANGED <<ended, contextOf, void>>, UserRestarts
  PROVE  Lifecycle!Next
<1>1. build' = [build EXCEPT !.restart = TRUE]
  BY Zenon DEF UserRestarts, PutBuild
<1>2. build'.phase = build.phase /\ build'.restart
  BY <1>1 DEF TypeOK, BuildTypeOK, Build
<1>3. Asked' = TRUE /\ Reported' = Reported
  BY <1>2 DEF Asked, Reported
<1>. QED
  BY <1>3 DEF Lifecycle!Next, Lifecycle!Ask

\* Every step of the container builder is one of the lifecycle or a stutter.
LEMMA RefinementStep ==
  ASSUME IInv, ContextInv, ResultInv, [ContainerNext]_containerVars
  PROVE  [Lifecycle!Next]_Lifecycle!lifecycleVars
<1>. USE DEF wfVars, buildVars, clusterVars, podVars, budgetVars
<1>a. TypeOK /\ PodInv
  BY DEF IInv
<1>1. CASE UNCHANGED containerVars
  BY <1>1, ReportKept DEF containerVars, vars
<1>2. CASE ContainerNext /\ BuildScheduled
  BY <1>a, <1>2, BeginStep DEF ContainerNext, Lifecycle!Next
<1>3. CASE ContainerNext /\ BuildMoves
  BY <1>a, <1>3, ReportStep DEF ContainerNext
<1>4. CASE ContainerNext /\ ~BuildScheduled /\ ~BuildMoves
  <2>1. History /\ Next /\ ~BuildBegins
    BY <1>4 DEF ContainerNext, BuildBegins
  <2>2. UNCHANGED contextOf /\ (~PodEnds => UNCHANGED ended)
    BY <1>4, <2>1 DEF History
  <2>3. UNCHANGED overlooked => UNCHANGED void
    BY <1>a, <2>1, VoidKept
  <2>4. CASE WorkflowController
    <3>1. ~PodEnds /\ UNCHANGED overlooked
      BY <2>4, WorkflowFrame DEF PodEnds
    <3>. QED
      BY <1>a, <2>2, <2>3, <2>4, <3>1, WithdrawStep
  <2>5. CASE UserRestarts
    <3>1. ~PodEnds /\ UNCHANGED overlooked
      BY <2>5 DEF PodEnds, UserRestarts
    <3>. QED
      BY <1>a, <2>2, <2>3, <2>5, <3>1, AskStep
  <2>6. CASE BkAnnotation
    BY <1>a, <2>1, <2>6, AcknowledgeStep
  <2>7. CASE BkInitialize \/ BkReconcile
    BY <1>a, <2>1, <2>7, OverlookStep
  <2>8. CASE BkScheduleStatus \/ BkReconcileStatus
    <3>1. ~WriteOk(bk.fresh)
      BY <1>4, <2>8 DEF BuildScheduled, BuildMoves
    <3>2. UNCHANGED buildVars /\ UNCHANGED clusterVars
      BY <2>8, <3>1, Zenon DEF BkScheduleStatus, BkReconcileStatus
    <3>. QED
      BY <1>4, <1>a, <2>1, <2>3, <3>2, UnwrittenStep
  <2>9. CASE BkStart \/ BkSchedule \/ BkSignal \/ (Environment /\ ~UserRestarts)
    <3>1. UNCHANGED <<build, overlooked>>
      <4>1. CASE BkStart \/ BkSchedule \/ BkSignal
        BY <4>1 DEF BkStart, BkSchedule, BkSignal
      <4>2. CASE Environment /\ ~UserRestarts
        BY <4>2 DEF Environment, DeliverWf, DeliverBuild, DeliverPod, Resync, OperatorRestart,
           PodStarts, PodSucceeds, PodFails, PodEvicted, PodGone, DeploymentPodsStart,
           DeploymentDegrades, DeploymentDeleted, UserEdits
      <4>. QED
        BY <2>9, <4>1, <4>2
    <3>. QED
      BY <1>4, <1>a, <2>1, <2>3, <3>1, UnwrittenStep
  <2>. QED
    BY <2>1, <2>4, <2>5, <2>6, <2>7, <2>8, <2>9 DEF Next, BuildController
<1>. QED
  BY <1>1, <1>2, <1>3, <1>4

\* At first nothing has ended and the build is one to be created.
LEMMA RefinementInit ==
  ASSUME ContainerInit
  PROVE  ResultInv /\ Lifecycle!Init
<1>1. /\ build.phase = "absent" /\ pod.state = "none" /\ podCache.state = "none"
      /\ bk.pc = "idle" /\ ended = {} /\ void = FALSE /\ overlooked = FALSE
  BY DEF ContainerInit, Init, NoBuild, NoPod, IdleBuild
<1>2. ResultInv
  BY <1>1 DEF ResultInv, PodIsItsOwn
<1>3. Asked = TRUE /\ Reported = Lifecycle!None
  BY <1>1 DEF Asked, Reported, Lifecycle!None
<1>. QED
  BY <1>1, <1>2, <1>3 DEF Lifecycle!Init

\* The container builder implements BuildLifecycle, for every lag of the
\* caches, fault and moment of an edit or a restart: what it reports of a
\* flow a builder pod has done since the build began, and a report is
\* withdrawn only to build anew.  Of a build that overlooked an earlier
\* builder pod nothing is claimed until it begins anew; OwnPodTheorem says
\* that none does while the pod cache is up to date.
THEOREM ContainerBuildTheorem == ContainerSpec => ContainerBuildImplementsLifecycle
<1>. DEFINE Inv == IInv /\ ContextInv /\ ResultInv
<1>1. ContainerInit => Inv /\ Lifecycle!Init
  BY InvariantInit, ContextInit, RefinementInit DEF ContainerInit
<1>2. Inv /\ [ContainerNext]_containerVars => Inv'
  <2>. SUFFICES ASSUME Inv, [ContainerNext]_containerVars PROVE Inv'
    OBVIOUS
  <2>1. [Next]_vars
    BY DEF ContainerNext, containerVars
  <2>2. IInv'
    BY <2>1, InvariantStep
  <2>. QED
    BY <2>1, <2>2, ContextStep, ResultStep DEF IInv
<1>3. Inv /\ [ContainerNext]_containerVars => [Lifecycle!Next]_Lifecycle!lifecycleVars
  BY RefinementStep
<1>. HIDE DEF Inv
<1>. QED
  BY <1>1, <1>2, <1>3, PTL DEF ContainerSpec, ContainerBuildImplementsLifecycle, Lifecycle!Spec

-----------------------------------------------------------------------------
(* The exception of both theorems is one of the pod cache alone: while it  *)
(* is up to date no earlier builder pod is overlooked.                     *)

\* Only initializePodAction looks for an earlier pod.
LEMMA OverlookedStep ==
  ASSUME "pod" \notin Lagging, ~overlooked, [Next]_vars
  PROVE  ~overlooked'
<1>. USE DEF wfVars, buildVars, clusterVars, podVars, budgetVars
<1>1. ASSUME NEW gone \in BOOLEAN, InitializePod(gone), Watched PROVE ~overlooked'
  <2>1. podCache = pod
    BY <1>1 DEF Watched
  <2>2. gone => pod.state = "none"
    BY <1>1, <2>1 DEF InitializePod, PodSeenGone
  <2>3. overlooked' = IF gone THEN pod.state # "none" ELSE overlooked
    BY <1>1, Zenon DEF InitializePod
  <2>. QED
    BY <2>2, <2>3
<1>2. CASE UNCHANGED vars
  BY <1>2 DEF vars
<1>3. CASE WorkflowController
  BY <1>3, WorkflowFrame
<1>4. CASE BkInitialize
  <2>1. Watched /\ (UNCHANGED podVars \/ \E gone \in BOOLEAN : InitializePod(gone))
    BY <1>4, Zenon DEF BkInitialize
  <2>. QED
    BY <1>1, <2>1
<1>5. CASE BkReconcile
  <2>1. Watched
    BY <1>5, Zenon DEF BkReconcile
  <2>2. UNCHANGED overlooked \/ \E gone \in BOOLEAN : InitializePod(gone)
    <3>1. \/ UNCHANGED podVars
          \/ \E phase \in Phases : WaitForPod(phase) \/ ScheduleBuild(phase) \/ MonitorPod(phase)
      BY <1>5, Zenon DEF BkReconcile
    <3>2. ASSUME NEW phase, WaitForPod(phase) \/ ScheduleBuild(phase) \/ MonitorPod(phase)
          PROVE  UNCHANGED overlooked \/ \E gone \in BOOLEAN : InitializePod(gone)
      <4>1. CASE WaitForPod(phase)
        BY <4>1, Zenon DEF WaitForPod
      <4>2. CASE ScheduleBuild(phase) \/ MonitorPod(phase)
        BY <4>2 DEF ScheduleBuild, MonitorPod
      <4>. QED
        BY <3>2, <4>1, <4>2
    <3>. QED
      BY <3>1, <3>2
  <2>. QED
    BY <1>1, <2>1, <2>2
<1>6. CASE BuildController /\ ~BkInitialize /\ ~BkReconcile
  BY <1>6, BuildFrame
<1>7. CASE Environment
  BY <1>7 DEF Environment, DeliverWf, DeliverBuild, DeliverPod, Resync, OperatorRestart,
     PodStarts, PodSucceeds, PodFails, PodEvicted, PodGone, DeploymentPodsStart,
     DeploymentDegrades, DeploymentDeleted, UserEdits, UserRestarts
<1>. QED
  BY <1>2, <1>3, <1>4, <1>5, <1>6, <1>7 DEF Next

\* With a pod cache that is up to date, however the other caches lag, every
\* build that has succeeded pushed the flow of its own build context.
THEOREM OwnPodTheorem ==
  ASSUME "pod" \notin Lagging
  PROVE  Spec => [](build.phase = "Succeeded" /\ ~build.restart => registry = ctx)
<1>. DEFINE Inv == ~overlooked
<1>1. Init => Inv
  BY DEF Init
<1>2. Inv /\ [Next]_vars => Inv'
  BY OverlookedStep
<1>3. Spec => []Inv
  <2>. HIDE DEF Inv
  <2>. QED
    BY <1>1, <1>2, PTL DEF Spec
<1>4. Inv /\ SucceededBuildPushedItsContext =>
        (build.phase = "Succeeded" /\ ~build.restart => registry = ctx)
  BY DEF SucceededBuildPushedItsContext
<1>. HIDE DEF Inv
<1>. QED
  BY <1>3, <1>4, SucceededBuildTheorem, PTL

\* With a pod cache that is up to date nothing the container builder reports
\* is exempt from BuildLifecycle.
THEOREM AlwaysPromisedTheorem ==
  ASSUME "pod" \notin Lagging
  PROVE  ContainerSpec => []~void
<1>. DEFINE Inv == ~overlooked /\ void = FALSE
<1>1. ContainerInit => Inv
  BY DEF ContainerInit, Init
<1>2. Inv /\ [ContainerNext]_containerVars => Inv'
  <2>. SUFFICES ASSUME Inv, [ContainerNext]_containerVars PROVE Inv'
    OBVIOUS
  <2>1. [Next]_vars
    BY DEF ContainerNext, containerVars
  <2>2. ~overlooked'
    BY <2>1, OverlookedStep
  <2>3. CASE UNCHANGED containerVars
    BY <2>2, <2>3 DEF containerVars
  <2>4. CASE History
    BY <2>2, <2>4 DEF History
  <2>. QED
    BY <2>2, <2>3, <2>4 DEF ContainerNext
<1>3. Inv => ~void
  OBVIOUS
<1>. HIDE DEF Inv
<1>. QED
  BY <1>1, <1>2, <1>3, PTL DEF ContainerSpec
=============================================================================
