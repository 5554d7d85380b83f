# A TLA+ model of the SonataFlow operator

The operator runs workflows on Kubernetes. Users create `SonataFlow` objects;
the operator builds an image for each, deploys it and reports in the object's
conditions how far it got. This directory models the operator's control logic,
model-checks it with TLC and proves parts of it with TLAPS. `PROJECT.json`
relates every definition to the lines of source it stands for.

## 1. Inventory

| Component | State | Operations | Hard part |
|---|---|---|---|
| Condition manager (`api/status_types.go`) | conditions of a resource | mark true, false, unknown; initialise | `MarkUnknown` of the ready type turns False when a dependent condition is not True |
| Workflow controller (`sonataflow_controller.go`) | work queue, informer cache | reconcile one request, wake on watches and delays | works on a cached copy; conflicts |
| State machine, `StateSupport` (`profiles/common/reconciler.go`) | none | pick the first state that can reconcile, `PerformStatusUpdate` (CRC of the flow) | a status no state accepts; the CRC is stored with every update |
| Preview profile (`profiles/preview`) | conditions `Built` and `Running`, `flowCRC` | newBuilder, followBuildStatus, deployWithBuild | several writes per handler, dropped errors |
| Dev profile (`profiles/dev`) | condition `Running`, attempts, time of last attempt, endpoint | ensureRunning, followDeployment, recoverFromFailure | limited recovery counted in a status written after the rollout |
| GitOps profile, factory | condition `Built` = BuildSkipped | skip build, follow deployment; choose the profile | a workflow that changes profile in the middle of a build |
| Build controller (`sonataflowbuild_controller.go`) | `SonataFlowBuild`: phase, image tag, restart annotation | schedule, reconcile, restart, signal the workflow | four writes in a row, on a cached copy |
| Build manager, container builder manager (`builder/`) | the build and its inner build | get or create, mark to restart; schedule, reconcile | decisions on cached builds |
| Container builder (`container-builder/`) | builder pod, build context | initialise, schedule, monitor pod | the pod of the previous build is still running |
| OpenShift builder | BuildConfig, OpenShift builds | schedule, push, follow | a POST whose answer is lost; a restart while the previous build runs |
| Deployment status manager | Deployment | sync status, roll out | reads a Deployment that changes on its own |
| Platform controller (`platform/`) | platforms of a namespace, warmer pods | initialise, services, warm, create, monitor; `GetActivePlatform` of the other controllers | only one primary platform may be active; cached list; spec and status are written over whatever the server has |
| Cluster platform controller | cluster platforms | initialise, patch the status | as above; follows the readiness of a platform and has to wake for it |
| Platform services (`platform/k8s.go`, `services/`) | Deployments, triggers, sink bindings, trigger list and finalizer of the platform | ensure, clean up | brokers that are not ready, K_SINK, dropped errors |
| Operator lock | leases | decide which operator handles a resource | nothing creates the lease |
| Knative triggers (`profiles/common/ensurer.go`) | trigger list and finalizer of the workflow | ensure, clean up | the finalizer is written in the middle of ensuring; deletion at that moment |
| Managed properties (`profiles/common`, `platform/services/properties.go`) | two ConfigMaps, the checksum of the Deployment, the services in the status | ensure the ConfigMaps, roll the Deployment out when they change | made from the status of the request before; checksum and pods read at different moments |
| Discovery, persistence, monitoring, workflowproj | none | generate data | none: stateless |

**Interaction.** The controllers share only the API server. The workflow
controller creates the build and sets its phase to empty to restart it
(`MarkToRestart`); the build controller drives the builder pod and writes the
`Built` condition of the workflow (`SetBuiltStatusToRunning`); the workflow
controller owns the build, so a change of its status wakes it. The environment
is the kubelet (builder pod), kaniko and the registry, the deployment controller
and the user, who edits `.spec.flow` or sets the restart annotation. The
platform and the cluster platform controller wake each other through watches on
each other's objects; workflows and builds call `GetActivePlatform`, which
writes the default platform when it finds no active one.

**What makes it correct.** A workflow reported as built has an image, and the
image that runs is the one of the flow the status speaks of; no persisted status
stops the state machine; after faults the workflow comes up again; recovery in
the dev profile is limited and its count is honest; one platform is active, and
platforms and cluster platforms agree in the end; no OpenShift build is
started beside the one that is followed; every trigger in another namespace is known as long as its owner
exists, and goes with it; what the platform offers and the user configures
reaches the pods.

The hazards, each at its line, are in `PROJECT.json`.

## 2. Modules

| Module | What it is |
|---|---|
| `Conditions` | the condition manager as operators |
| `PreviewProfile` | one workflow in the preview profile: workflow controller, build controller, container builder, environment |
| `MCPreviewProfile` | fault sets for TLC; `Preview*.cfg` but `PreviewFaults.cfg`, which is for `MCContainerBuild` |
| `PreviewProofs` | type correctness |
| `ContainerBuild`, `MCContainerBuild` | the build of `PreviewProfile` with the history of its builder pods; it implements `BuildLifecycle` |
| `PreviewSafetyProofs` | the inductive invariants, four safety theorems and the proof of the refinement |
| `DevProfile` | one workflow in the dev profile, with time in minutes |
| `MCDevProfile` | fault sets for TLC; `Dev*.cfg` |
| `DevProofs` | the inductive invariant of the dev profile and its theorems |
| `GitOpsProfile`, `MCGitOpsProfile` | one workflow in the GitOps profile with its Deployment and triggers, from its first request to its deletion |
| `GitOpsProofs` | the inductive invariant of the GitOps profile and its theorems |
| `BuildLifecycle` | what a build promises to the workflow, whichever builder runs it |
| `OpenShiftBuild`, `MCOpenShiftBuild` | a build on OpenShift; it implements `BuildLifecycle` |
| `OpenShiftProofs` | its inductive invariant, its theorems and the proof of the refinement |
| `PlatformObjects` | platforms and cluster platforms, their cache, watches and the user |
| `Platform` | the platform controller, the warmer pods and `GetActivePlatform` |
| `ClusterPlatform` | the cluster platform controller |
| `PlatformSystem`, `MCPlatformSystem` | the two composed over one cache and one set of queues, their fairness and properties |
| `PlatformProofs` | the inductive invariant of the composition and its theorems |
| `PlatformServices`, `MCPlatformServices` | the service action of one platform with Knative |
| `ServicesProofs` | its inductive invariant and its theorems |
| `WorkflowConfig`, `MCWorkflowConfig` | the properties of a workflow, from the platform and the user to the pods |
| `ConfigProofs` | type correctness, and what the cached copies agree with |

### PreviewProfile

| Variable | Code |
|---|---|
| `wf`, `wfCache`, `wfFresh` | the `SonataFlow` on the server, in the informer cache, and whether the two have the same resource version |
| `build`, `buildCache`, `buildFresh` | the same for the `SonataFlowBuild`; phase `absent` is no object, `None` the empty phase |
| `wk` | the request the workflow reconciler is working on: the step reached, its copy of the workflow, the build it read |
| `bk` | the same for the build reconciler |
| `queued` | controllers with a request in their work queue |
| `props`, `ctx`, `pod`, `registry`, `deploy` | properties ConfigMaps, build context ConfigMap, builder pod, the image tagged `latest`, the Deployment |
| `restarts`, `faults` | bounds on the user and the environment |

A handler is a chain of actions, one for each write to the API server, so the
other controller, the pod and the user can act between any two writes; reads
from the cache belong to the step they are made in. `WfStart` picks the state
(`Dispatch`). newBuilderState is `NewBuilderUpdate`, `NewBuilderProps`,
`NewBuilderBuild`; followBuildStatusState is `FollowBuild`, `FollowRollout`;
deployWithBuildWorkflowState is `DeployCheck`, then `DeployRestart`, or
`DeployObjects`/`DeployObjectsErr`, `DeploySync`, `DeployFinish`; `WfFinish` is
the last `PerformStatusUpdate`. The build controller is `BkStart`, then
`BkSchedule`, `BkScheduleStatus`, `BkAnnotation`, `BkSignal`, or `BkReconcile`,
`BkReconcileStatus`.

What is abstracted:

- A flow is a number and its CRC32 is that number: two flows with the same
  CRC32 are not told apart by the code, and are not modelled.
- The resource version is one bit per copy: it still is the server's or not. A
  write that changes nothing keeps it, as the server does.
- A watch event brings the newest version; versions in between are skipped,
  which an informer may do and which loses no behaviour of a level-triggered
  handler except that it sees fewer stale versions.
- Changes of the message of a condition alone wake nobody.
- Delays are requests in the queue: any delay may be short. In `Resync` the
  informers' periodic resync happens only when nothing else is queued.
- The Deployment is read as it is. `latest` says whether its pods run the last
  image pushed.
- Kubernetes and kaniko: the Knative deployment model with its revisions and
  build timeouts are left out; the OpenShift builder has a module of its own.

### DevProfile

`wf`, `cache` and `fresh` are the status on the server and in the cache; `wk` is
the request; `queued` and `timer` the work queue and the delayed request of the
workflow; `external`, `deploy` the ConfigMaps the workflow refers to and the
health of its Deployment; `rollouts` counts the rollouts since the attempts were
last persisted as zero. `EnsureConfigMaps`, `FetchExternalResources` and
`EnsureDeployment` are ensureRunningWorkflowState, `FollowDeployment`,
`FollowUpdate`, `FollowPost` are followWorkflowDeploymentState with
`PostReconcile`, `RecoverFromFailure` is recoverFromFailureState. Time advances
by a minute (`Tick`) only when no request is due, so a handler takes less than a
minute; `LastTimeRecoverAttempt` is the age of the last attempt, counted up to
the interval. The 5 s delay of a followed Deployment is 0 minutes.

### GitOpsProfile

`workflow`, `cache` and `cached` are the `SonataFlow` (existence, deletion
timestamp, finalizer, conditions, `.status.triggers`, the events it consumes) on
the server and in the cache; `request` is the request with its copy, the
triggers it still has to make and whether it created the Deployment; `current`
says whether that copy still has the server's resource version. ensureBuildSkipped is
`Start` and `WriteStatus`; followDeployWorkflowState is `EnsureDeployment`,
`ValidateBrokers`, for each trigger `MutateTrigger` and `CreateTrigger`,
`AfterTriggers`, `SyncDeploymentStatus` and `WriteStatus`. `Answered` is what the
`Update` in the middle does to the copy: what the server returns replaces what
was only in memory, and a field the answer lacks stays. Deletion is
`DeleteTriggers` and `RemoveFinalizer`. The initial statuses are those the
preview profile leaves at the stages of a build (`MCGitOpsProfile`,
`PreviewStatuses`). Sink bindings, services and ConfigMaps are ensured or fail
with the Deployment.

### BuildLifecycle, ContainerBuild and OpenShiftBuild

`BuildLifecycle` has three variables: whether a build has been asked for, the
outcome reported and the results of everything that ended since the build began.
A report has to be one of those results, and stays until it is withdrawn to build
anew: `Withdraw` is the workflow controller taking the phase away
(`MarkToRestart`) or an OpenShift build that is gone, `Ask` the user's annotation,
beside which the report stays until the build begins.

Both builders implement it. `ContainerBuild` adds history to `PreviewProfile`: the
results of the builder pods that ended since the status said that the build began,
each with the flow the pod had read (`ended`), and the flow of the build context at
the last write of the status, which is the flow a report is of (`contextOf`). The result of a pod of the
build before, which runs on until its deletion is through, is among them but must not
be reported. `OpenShiftBuild` maps them to the phase
and the restart annotation (`asked`, `outcome`) and to the history variable
`ended`. Its state is the `SonataFlowBuild` on the server and in the cache, the
request, and the OpenShift builds in the order they were started, each with the
version of the workflow it was pushed with; builds of one BuildConfig run one
after the other. `overtaken` and `orphans` are history: the build follows an
OpenShift build that was started before it began; OpenShift builds whose start no
status write recorded.

### Platforms

In `PlatformObjects` a platform has its spec (a version: 0 is the operator's own),
its condition and the cluster platform it refers to; `seen` and `cseen` are the
cache, `behind` the objects whose cached copy is out of date, `queued` the work
queues of both controllers. `WokenByPlatform` and `WokenByClusterPlatform` are the
mapping functions of the watches. `Platform` reads the platform from the server
(the controller uses the API reader), chooses the action (`Action`) and writes back with
`SafeUpdatePlatform` and `SafeUpdatePlatformStatus`, which start from the cached
object. `gk` is a call of `GetActivePlatform` by another controller. `stale`
records that a decision was made on a cached list that was no longer true.
`ClusterPlatform` patches the status with what differs from the copy as it was
read. All platforms are in one namespace; `Secondary` names those with the
secondary annotation.

`PlatformServices` follows one platform through `serviceAction.Handle`: for each
service in turn the Deployment with its K_SINK check, the brokers, finalizer and
trigger one by one, the list, the sink binding. `dropped` records that an error
of the K_SINK check was swallowed.

### WorkflowConfig

`store` and `cache` hold the workflow (the service address in its status), the
platform, the two ConfigMaps and the Deployment (its checksum), on the server and
in the informers, each of which lags on its own (`behind`). `configuring` is the
request: `Begin`, `EnsureUserProps`, `EnsureManagedProps`,
`EnsureConfigDeployment` and the status update at the end (`UpdateServiceUrls`),
to which an error jumps as well (`EnsureFails`). `CreateOrPatch` is the helper of
controller-runtime: it compares with the cached copy, and its patch carries no
version. A request that has ended is repeated by the delay for running
workflows, so there is no queue. `pods` says whether the pods belong to the template as
it is, what they read when they started and whether the checksum was of that
(`early`). One service stands for the data index and the job
service, whose addresses take the same way; the texts of the properties, and the
Knative deployment model, which has no checksum, are left out.

## 3. Runs

| Run | Shows |
|---|---|
| `preview_faults` | flows edited and restarted at any moment and one fault of any kind: types, `AlwaysReconcilable`, `BuiltHasImage`, `SucceededBuildPushedItsContext` and the refinement `ContainerBuildImplementsLifecycle` |
| `preview_edits` | edits and restarts of settled workflows over lagging caches, with a refused request or a crash: the same and `ImageMatchesCRC` |
| `preview_live` | `Converges` and `RestartTakenUp` after one recoverable fault |
| `dev_live` | two faults of any kind over a lagging cache: types, `GivesUpOnlyAfterTrying`, `DevConverges` |
| `gitops` | types, `FinalizerGuardsTriggers`, `ListedStaysListed`, `EventuallyDeployed` with two faults, edits or deletions |
| `openshift_build` | types, `OneBuildFollowed`, `ImageIsCurrent`, `EventuallyEnds` and the refinement `ImplementsLifecycle` with a restart, by the workflow controller or the user, and two faults |
| `platforms` | types, `OnlyOneActive`, `OneBecomesActive`, `ControllersAgree` for two platforms, or a platform and two cluster platforms, and one fault, edit or deletion |
| `platform_services` | types, `PlatformFinalizerGuardsTriggers`, `EventuallyComplete` for two services and two faults, edits or deletions |
| `workflow_config` | types and `ConfigSettles` with two edits, deletions, changes of the platform or faults over a lagging cache |

Three runs find the code at odds with what its comments say:

| Run | Behaviour |
|---|---|
| `preview_edit_while_building` | the CRC of an edit made during a build is stored with the next status update, and the edit is never built |
| `preview_latest_bits` | after the rebuild of an edit the Deployment is not rolled out: the workflow is no longer ready when the build is followed, and the tag `latest` does not change |
| `workflow_trigger_leak` | a workflow deleted while a request makes its trigger leaves the trigger behind in the other namespace |

**Exceptions the properties name.** Some passing properties hold only outside of a
case in which the code falls short; the case is part of the model, and the
property says so:

- `DevConverges`: a workflow whose external ConfigMaps were missing for a while and
  whose Deployment is available stays reported with `ExternalResourcesNotFound`
  (`states_dev.go:139`).
- `OneBecomesActive`: a platform whose warmer pod failed or was deleted stays in
  Warming (`warm.go:80`). `CallsEnd`, its premise and that of `ControllersAgree`,
  says that nobody calls `GetActivePlatform` for ever: each call that finds no
  active platform sets the default one back to the beginning.
- `OnlyOneActive`: decisions on an outdated cached list can leave two platforms
  in use (`initialize.go:170`), which `stale` records.
- `EventuallyComplete`: a dropped error of the K_SINK check (`k8s.go:151`).
- `ConfigSettles`: pods that start while the ConfigMaps are ahead of the checksum keep
  what they read if the edit is undone before the next request: the checksum compares
  with the one before, not with the pods (`deployment.go:132`, beside the comment at
  `mutate_visitors.go:216` that any change forces a refresh). `early` records it.
- `ImageIsCurrent`: a restart while an OpenShift build runs follows that build
  (`openshiftbuilder.go:218`).
- `EventuallyEnds`: a cancelled OpenShift build leaves the build interrupted, a
  phase the controller neither treats as final nor leaves by itself.

Four more behaviours the models show and no run states. After a failure of the
properties ConfigMaps the next reconciliation starts the build without them
(`states_preview.go:85`). The guard on the recover interval of the dev profile is
inverted: rollouts follow each other at once, and none is made after ten minutes
(`states_dev.go:254`). The watch on triggers in other namespaces looks for a label
the triggers of workflows do not have (`knative.go:248`), so a lost one is noticed
only by the next periodic request. And an edit of a platform made during a request
is undone: `SafeUpdatePlatform` reads the platform anew and replaces the whole spec
with that of its older copy, so that nothing conflicts (`platformutils.go:76`).

**Bounds.** Two flows are needed for a rebuild, three for a second edit in
`preview_edits`; one restart is enough to overlap
with an edit. One fault (two in the dev profile, where a failure of the Deployment
and a lost status update have to meet) reaches every error path; the proofs do not
depend on any of these numbers. `preview_edits` combines edits and restarts of settled workflows with
lag, `preview_faults` edits at any moment with every fault; both at once, and liveness
over lagging caches, are more than a run can hold. The dev profile uses the code's own numbers (three
retries, 10, 3 and 1 minutes). In the other models `MaxFaults` bounds user edits
and deletions, too, so that two let any two of them meet: a deletion and a
refused write, an edit and a crash, a lost broker and a lost trigger. Two events
and two namespaces let one trigger need the finalizer and the other not, in
either order. The data index has two triggers, enough for a failure between two of them; it
really has eight. An OpenShift build is
pushed at most four times: once, once for the restart and once more for each
fault that loses one. Two platforms are the least that can both become active;
in `platforms` the cache lags for the second platform only, because lag for all
of them multiplies the states, and `MaxVersion` is two, for an edit of a platform, the operator's or the user's.
`workflow_config` has two property values and begins with a platform that has a
service of its own or one that uses the cluster platform's; two faults let
an edit meet a change of the platform, a failed write or a crash.

Deadlock checking is off where the system really comes to rest: a deleted
workflow, a build that has ended, platforms that are ready. In the preview and
dev profiles the resync and the delayed requests always leave a step.

**Fairness.** A worker of controller-runtime takes the requests of its queue,
so the reconcilers are fair; watches deliver, delayed requests and the resync
fire, time passes. The cluster runs pods it has accepted. Fairness of the build
controller and of the cluster in the preview profile is strong because, without lag,
delivery of the workflow controller's own updates briefly disables every other step again and
again; the real threads do not hold each other up. For the same reason the
platform controllers are strongly fair to each object in their queue: one worker
serves all of them in turn. A broker becomes ready if it is given the chance
again and again (strong), OpenShift runs the builds it has queued, and the
garbage collector runs. In `WorkflowConfig` requests are repeated, the watch delivers each
object and a rollout that can start its pods ends. Edits, restarts, deletions, calls of `GetActivePlatform`
and faults are never fair. In the dev profile the ConfigMaps are put back and the Deployment's
pods come up when given the chance (strong, since it may be recreated); this is
what `DevConverges` asks about. `Converges` allows a build that has failed or was
interrupted: the code waits for the user to restart it.

## 4. Proofs

All theorems hold for every value of the constants, under the assumption named in
each module: `BoundsAssumption`, `DevAssumption`, `GitOpsAssumption`,
`OpenShiftAssumption`, `PlatformAssumption`, `ServicesAssumption` and
`ConfigAssumption`. They say that bounds are natural numbers, that the fault sets are
sets of faults and that the initial objects are objects; further, that the delays of
the dev profile are ordered as the code has them (running, failure, interval), that
the events of the GitOps profile are numbered, that the services are finitely many and
all in the order in which they are handled, and that platforms and cluster platforms
are different objects. No theorem needs fairness.

- `PreviewProofs!TypeCorrect`: `TypeOK`, inductive as it stands: one lemma per
  controller and one for the environment.
- `PreviewSafetyProofs`: `AlwaysReconcilable` and `BuiltHasImage` are not
  inductive, since what a reconciler writes comes from copies read earlier and
  from the other controller. `IInv` follows that chain: conditions on the
  server, in the cache and in the request only have reasons some state accepts
  (`StatusInv`); a succeeded build, in any copy, has an image in the registry and
  a scheduled build has a context (`BuildInv`); a pod has a context, a running
  pod has read it and a succeeded pod has pushed (`PodInv`). `Invariance` is
  `Spec => []IInv`; it rests on the registry and the context never becoming
  empty (`RegistryKept`).
- `SucceededBuildTheorem`: `ContextInv` says whose builder pod there is. A copy of the
  build that still has the server's version agrees with it; a build leaves Initialization
  only when the pod of the build before is gone; and while a build is being scheduled
  nobody works on a copy with which a pod is created or monitored. So the pod that
  runs or has succeeded has read the context of the build.
- `ContainerBuildTheorem`: `ResultInv` adds to `ContextInv` what the history says of a
  pod of the build that has ended: its result, for the context there is, is among
  those since the beginning. The same holds for the copy the build reconciler is about
  to write, if it still can. The case that needs both is the status update: the phase
  comes from a pod read a step earlier, the flow from the context. `BkStart` decides
  on a cached copy, and it takes `ContextInv` to see that a status that goes through
  belongs to a build that has been asked for (`BeginStep`) or has not reported yet (`ReportStep`).
- `ImageMatchesCRCTheorem` has the hypothesis `~EditAnyTime`: flows are edited only
  when the workflow is settled, and builds restarted only then or when they have
  failed. `preview_edit_while_building` is the counterexample without it. Under it
  the build in progress or done is of the current flow, or the edit has not been seen
  (`EditUnseen`): then the CRC in the status is still that of the flow before, the
  finished build has not been touched, and a request that has seen the edit is on its way to
  restart the build, while any other holds a copy it cannot write. Caches may lag and every fault
  may happen. `Settled` asks that the status speaks of the current flow; without
  that the next edit may come before the last is noticed.
- `DevProofs`: `DevInv` adds to `DevTypeOK` that every copy of the status which
  says the operator gave up has used all attempts, that a fresh cache equals the
  server, and that no status which can still be written counts more attempts
  than there were rollouts; a copy that is not fresh may, but its write
  conflicts. `DevTypeCorrect` and `GivesUpTheorem` follow.
- `GitOpsProofs`: `GitOpsInv` adds two things to `GitOpsTypeOK` and
  `FinalizerGuardsTriggers`. `FinalizerInv`: a copy that has the finalizer was read
  or answered while the server had it, and only a clean-up takes it away, so a
  request may trust it when it makes a trigger. `ListInv`: a copy that can still be
  written lists all the server lists, except what the clean-up has deleted.
  `GitOpsTypeCorrect`, `FinalizerGuardsTriggersTheorem` and
  `ListedStaysListedTheorem` follow.
- `OpenShiftProofs`: `OpenShiftInv` adds to the types and to `OneBuildFollowed` what a
  status that follows an OpenShift build says of it (`StatusHolds`: it was started, its end
  is among the results, and so is what the status reports), that it is of the current
  version except when overtaken (`StatusIsCurrent`), and, in `RequestInv`, that a request
  whose copy can still be written has the server's build in hand, up to what it
  is about to write. A request on an older copy may do anything but write.
  `ImplementsLifecycleTheorem` maps every step to one of `BuildLifecycle` or to a stutter;
  the case that needs the invariant is the status update, whose phase comes
  from an OpenShift build read a step earlier.
- `PlatformProofs`: `PlatformInv` adds to `PlatformTypeOK` and `OnlyOneActive` that a
  request about to take its platform into use has seen no other in use, and that none
  becomes so meanwhile, since only the one worker of the controller takes
  platforms into use (`RequestIsAlone`). Both allow for `stale`, a decision made on an
  old list; `OnlyOneActiveWithoutLag` shows that this never happens when the cache
  keeps up with platforms, so the exception is for lag and nothing else.
- `ServicesProofs`: `ServicesInv` adds to the types and to `PlatformFinalizerGuardsTriggers`
  that a request about to create a trigger in another namespace has seen the finalizer,
  that a finalizer seen stays as long as the request runs and keeps the platform, and that
  a clean-up has deleted what it has ticked off and, on a current copy, knows all
  that is listed.
- `ConfigProofs!ConfigTypeCorrect`: `ConfigTypeOK` is inductive as it stands. It is more than
  types: a cached object that is not behind is the server's, although patches
  carry no version.

Every invariant, every action property and both refinements that a run checks are
proved. Only model-checked: the liveness properties (`Converges`, `RestartTakenUp`,
`DevConverges`, `EventuallyDeployed`, `EventuallyEnds`, `OneBecomesActive`,
`ControllersAgree`, `EventuallyComplete`, `ConfigSettles`), since fairness and `ENABLED` are
beyond the prover.

Two things the dev model shows and no property states. The number of rollouts is
not bounded by the number of attempts: a rollout whose count is lost to a conflict
or a crash is made again, so only the converse, that every attempt counted was a
rollout, can hold. And the endpoint is set by followWorkflowDeploymentState only:
a workflow that comes up through recovery has none.

## 5. Not modelled, and what is left

- The Knative deployment model with the clean-up of revisions; sink bindings of
  workflows; taking an image away from a workflow again or changing it to or from
  the dev profile (a status with a False `Built` and a True `Running` is accepted
  by no preview state).
- The timeout of a builder pod: it needs a clock, and what it does to the phases is
  the failure the pod may have anyway.
- The operator lock: a local and the default global operator decide from a lease
  which of them handles a resource, but nothing in the repository writes the
  lease; without one both answer that they do.
- Discovery, the texts of managed properties, persistence, monitoring and workflowproj:
  stateless transformations of strings and objects; the contents of Deployments,
  BuildConfigs and service containers for the same reason. The entry point, the
  end-to-end test frameworks and generated code.

To be proved next: the action properties behind the liveness properties, such as that
nothing but a write of the build controller takes a restart annotation away.
