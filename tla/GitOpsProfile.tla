---------------------------- MODULE GitOpsProfile ----------------------------
(***************************************************************************)
(* A workflow whose image is given: the factory picks the GitOps profile,  *)
(* which skips the build and deploys, whatever the preview profile left in *)
(* the status.  The workflow consumes events, so that the deployment comes *)
(* with Knative triggers, which live next to their broker: in another      *)
(* namespace nothing but a finalizer lets the controller clean them up.    *)
(*                                                                         *)
(* One workflow, read through the cache of the client.  ConfigMaps, the    *)
(* Service, sink bindings and the contents of all objects are left out.    *)
(***************************************************************************)
EXTENDS Naturals, FiniteSets, Conditions

CONSTANTS
  Events,          \* the events the workflow may consume: 1..n, in order
  EventSpecs,      \* the sources a user may give them (bound)
  InitialStatuses, \* the conditions an earlier profile may have left
  MaxFaults,       \* how many faults, edits and deletions there are (bound)
  FaultKinds       \* of which kinds, out of GitOpsFaults

GitOpsFaults == {"api", "crash", "broker", "trigger", "deployment", "edit", "delete"}

Namespaces == {"own", "other"}

\* The namespace of the broker an event comes from, if there is one.
EventSpec == [Events -> Namespaces \cup {"none"}]

Reasons == {"", "WaitingForBuild", "WaitingForDeployment", "BuildIsRunning", "BuildFailed",
            "BuildSkipped", "DeploymentUnavailable", "DeploymentFailure", "ExternalResourcesNotFound"}

ConditionMap == [{"Running", "Built"} -> [status : {"nil", "True", "False", "Unknown"}, reason : Reasons]]

NilConds == [t \in {"Running", "Built"} |-> NilCond]

ASSUME GitOpsAssumption ==
  /\ IsFiniteSet(Events) /\ Events = 1..Cardinality(Events)
  /\ EventSpecs \subseteq EventSpec /\ EventSpecs # {}
  /\ InitialStatuses \subseteq ConditionMap /\ InitialStatuses # {}
  /\ MaxFaults \in Nat /\ FaultKinds \subseteq GitOpsFaults

VARIABLES
  workflow,   \* the SonataFlow on the API server
  cache,      \* the copy in the cache of the client
  cached,     \* the copy has the server's resource version
  current,    \* so has the copy the request works on
  request,    \* the request of the workflow controller
  queued,     \* the workflow is in the work queue
  triggers,   \* the triggers that exist
  broker,     \* the namespaces whose broker is ready
  deployment, \* the workflow's Deployment
  faults      \* faults injected, edits and deletions so far

objectVars == <<workflow, cache, cached>>
clusterVars == <<triggers, broker, deployment>>
gitOpsVars == <<objectVars, current, request, queued, clusterVars, faults>>

-----------------------------------------------------------------------------
(* The objects.                                                            *)

Triggers == [event : Events, ns : Namespaces]

Remote(t) == t.ns # "own"

\* SonataFlow: .metadata, .spec.sources and .status.  When the object is
\* gone the record keeps what it was last.
Workflow ==
  [exists : BOOLEAN, deleting : BOOLEAN, finalizer : BOOLEAN, events : EventSpecs,
   conds : ConditionMap, listed : SUBSET Triggers]

RequestSteps == {"idle", "buildSkipped", "deployment", "failed", "broker", "finalizer", "trigger",
                 "created", "sync", "finish", "cleanup", "removeFinalizer"}

\* The in-memory workflow, the triggers still to be dealt with and whether
\* this request created the Deployment.
Request == [pc : RequestSteps, wf : Workflow, todo : SUBSET Triggers, created : BOOLEAN]

NoWorkflow == [exists |-> FALSE, deleting |-> FALSE, finalizer |-> FALSE,
               events |-> CHOOSE e \in EventSpecs : TRUE, conds |-> NilConds, listed |-> {}]

IdleRequest == [pc |-> "idle", wf |-> NoWorkflow, todo |-> {}, created |-> FALSE]

Health == {"none", "progressing", "available", "failed", "unavailable"}

\* TriggersCreator: one per event that has a broker, next to the broker.
Wanted(events) == {t \in Triggers : events[t.event] = t.ns}

\* Triggers are ensured in the order of the workflow's events.
Earliest(todo) == CHOOSE t \in todo : \A u \in todo : t.event <= u.event

NextTrigger == Earliest(request.todo)

Fault(kind) ==
  /\ kind \in FaultKinds /\ faults < MaxFaults
  /\ faults' = faults + 1

-----------------------------------------------------------------------------
(* The server.                                                             *)

\* The server stores a new version; the watch delivers it later.
Put(new) ==
  /\ workflow' = new
  /\ cached' = (cached /\ new = workflow)
  /\ UNCHANGED cache

DeliverWorkflow ==
  /\ ~cached
  /\ cached' = TRUE /\ cache' = workflow /\ queued' = TRUE
  /\ UNCHANGED <<workflow, current, request, clusterVars, faults>>

\* Update and Status().Update refuse a copy that is out of date.
CanWrite == workflow.exists /\ current

Goto(pc) == request' = [request EXCEPT !.pc = pc]

Return(again) ==
  /\ request' = IdleRequest
  /\ queued' = (queued \/ again)

-----------------------------------------------------------------------------
(* The states of the profile.                                              *)

\* Seeded fault: only a workflow nobody has looked at before.
BuildSkippedCanReconcile_OnlyUnknown(conds) == IsUnknown(conds["Built"]) \/ IsTrue(conds["Built"])

BuildSkippedCanReconcile(conds) ==
  IsUnknown(conds["Built"]) \/ IsTrue(conds["Built"]) \/ conds["Built"].reason # "BuildSkipped"

FollowDeployCanReconcile(conds) == conds["Built"].reason = "BuildSkipped"

\* SonataFlowReconciler.Reconcile and the state machine up to the first
\* call: a workflow that is being deleted is only cleaned up, and one that no
\* state can reconcile is an error.
Start ==
  /\ request.pc = "idle" /\ queued
  /\ IF ~cache.exists THEN queued' = FALSE /\ UNCHANGED <<request, current>>
     ELSE LET conds == InitializeConditions(cache.conds, "Running", {"Built"})
              begin(pc, c) == [IdleRequest EXCEPT !.pc = pc, !.wf = [cache EXCEPT !.conds = c]]
          IN /\ current' = cached
             /\ IF cache.deleting /\ cache.finalizer
                THEN request' = begin("cleanup", cache.conds) /\ queued' = FALSE
                ELSE IF BuildSkippedCanReconcile(conds)
                THEN request' = begin("buildSkipped", MarkFalse(conds, "Built", "BuildSkipped")) /\ queued' = FALSE
                ELSE IF FollowDeployCanReconcile(conds)
                THEN request' = begin("deployment", conds) /\ queued' = FALSE
                ELSE UNCHANGED <<request, queued>>
  /\ UNCHANGED <<objectVars, clusterVars, faults>>

\* PerformStatusUpdate: the conditions and the triggers of the copy.
PutStatus ==
  /\ CanWrite
  /\ Put([workflow EXCEPT !.conds = request.wf.conds, !.listed = request.wf.listed])

\* A status update that ends a request which is to come back, at once or
\* after some time: ensureBuildSkipped.Do, a Deployment just created and the
\* end of reconcileWithImage.
WriteStatus ==
  /\ request.pc \in {"buildSkipped", "created", "finish"}
  /\ PutStatus
  /\ Return(TRUE)
  /\ UNCHANGED <<current, clusterVars, faults>>

\* ensureObjects up to the Deployment.
EnsureDeployment ==
  /\ request.pc = "deployment"
  /\ deployment' = IF deployment = "none" THEN "progressing" ELSE deployment
  /\ request' = [request EXCEPT !.pc = "broker", !.created = (deployment = "none")]
  /\ UNCHANGED <<objectVars, current, queued, triggers, broker, faults>>

\* One of the objects cannot be ensured: the status is to say so, ...
EnsureFails ==
  /\ request.pc = "deployment" /\ Fault("api")
  /\ \E reason \in {"ExternalResourcesNotFound", "DeploymentUnavailable"} :
       request' = [request EXCEPT !.pc = "failed", !.wf.conds = MarkFalse(@, "Running", reason)]
  /\ UNCHANGED <<objectVars, current, queued, clusterVars>>

\* ... if it can be written, and the request fails.
WriteFailure ==
  /\ request.pc = "failed"
  /\ \/ PutStatus /\ UNCHANGED faults
     \/ ~CanWrite /\ UNCHANGED <<objectVars, faults>>
     \/ Fault("api") /\ UNCHANGED objectVars
  /\ Return(TRUE)
  /\ UNCHANGED <<current, clusterVars>>

\* TriggersCreator: every broker has to be ready.
ValidateBrokers ==
  /\ request.pc = "broker"
  /\ LET wanted == Wanted(request.wf.events)
     IN IF \A t \in wanted : t.ns \in broker
        THEN request' = [request EXCEPT !.pc = "finalizer", !.todo = wanted] /\ UNCHANGED queued
        ELSE Return(TRUE)
  /\ UNCHANGED <<objectVars, current, clusterVars, faults>>

\* ensureObjects goes on after the last trigger: a Deployment just created is
\* not looked at in the same request.
AfterTriggers ==
  /\ request.pc = "finalizer" /\ request.todo = {}
  /\ request' = IF request.created
                THEN [request EXCEPT !.pc = "created", !.wf.conds = MarkFalse(@, "Running", "WaitingForDeployment")]
                ELSE [request EXCEPT !.pc = "sync"]
  /\ UNCHANGED <<objectVars, current, queued, clusterVars, faults>>

\* Seeded fault: the list is built anew in each request.
AddToTriggerList_New(listed, t) == {t}

AddToTriggerList(listed, t) == listed \cup {t}

\* The copy takes what the server answers to an Update; fields the answer
\* leaves out keep the value they had in memory.
Answered(wf) ==
  [workflow EXCEPT !.finalizer = wf.finalizer,
                   !.listed = IF workflow.listed = {} THEN wf.listed ELSE workflow.listed,
                   !.conds = IF workflow.conds = NilConds THEN wf.conds ELSE workflow.conds]

\* Seeded fault: the finalizer is set once the trigger is there.
MutateTrigger_NoFinalizer ==
  /\ request.pc = "finalizer" /\ request.todo # {}
  /\ request' = [request EXCEPT !.pc = "trigger", !.wf.listed = AddToTriggerList(@, NextTrigger)]
  /\ UNCHANGED <<objectVars, current, queued, clusterVars, faults>>

\* ensureObject, before it creates or patches a trigger: the trigger is added
\* to the list in memory; for one in another namespace the finalizer is
\* written first, with an Update of the whole workflow.
MutateTrigger ==
  /\ request.pc = "finalizer" /\ request.todo # {}
  /\ LET wf == [request.wf EXCEPT !.listed = AddToTriggerList(@, NextTrigger)]
     IN IF ~Remote(NextTrigger) \/ wf.finalizer
        THEN /\ request' = [request EXCEPT !.pc = "trigger", !.wf = wf]
             /\ UNCHANGED objectVars
        ELSE /\ CanWrite
             /\ Put([workflow EXCEPT !.finalizer = TRUE])
             /\ request' = [request EXCEPT !.pc = "trigger", !.wf = Answered([wf EXCEPT !.finalizer = TRUE])]
  /\ UNCHANGED <<current, queued, clusterVars, faults>>

CreateTrigger ==
  /\ request.pc = "trigger"
  /\ triggers' = triggers \cup {NextTrigger}
  /\ request' = [request EXCEPT !.pc = "finalizer", !.todo = @ \ {NextTrigger}]
  /\ UNCHANGED <<objectVars, current, queued, broker, deployment, faults>>

\* Seeded fault: the reason is what the Deployment reports.
RunningCondition_Raw(conds) ==
  IF deployment = "available" THEN MarkTrue(conds, "Running")
  ELSE MarkFalse(conds, "Running", deployment)

\* SyncDeploymentStatus: the Running condition the Deployment stands for.
RunningCondition(conds) ==
  IF deployment = "available" THEN MarkTrue(conds, "Running")
  ELSE MarkFalse(conds, "Running",
                 CASE deployment = "failed" -> "DeploymentFailure"
                   [] deployment \in {"none", "unavailable"} -> "DeploymentUnavailable"
                   [] OTHER -> "WaitingForDeployment")

SyncDeploymentStatus ==
  /\ request.pc = "sync"
  /\ request' = [request EXCEPT !.pc = "finish", !.wf.conds = RunningCondition(@)]
  /\ UNCHANGED <<objectVars, current, queued, clusterVars, faults>>

\* cleanupTriggers deletes what the status lists, ...
DeleteTriggers ==
  /\ request.pc = "cleanup"
  /\ \/ \E t \in request.wf.listed :
          /\ triggers' = triggers \ {t}
          /\ request' = [request EXCEPT !.wf.listed = @ \ {t}, !.todo = @ \cup {t}]
     \/ request.wf.listed = {} /\ Goto("removeFinalizer") /\ UNCHANGED triggers
  /\ UNCHANGED <<objectVars, current, queued, broker, deployment, faults>>

\* ... and lets the workflow go.
RemoveFinalizer ==
  /\ request.pc = "removeFinalizer"
  /\ CanWrite
  /\ Put([workflow EXCEPT !.exists = FALSE, !.finalizer = FALSE])
  /\ Return(FALSE)
  /\ UNCHANGED <<current, clusterVars, faults>>

\* A write of an outdated copy, or any call the server does not answer.
RequestError ==
  /\ request.pc \notin {"idle", "failed"}
  /\ \/ /\ ~CanWrite /\ UNCHANGED faults
        /\ \/ request.pc \in {"buildSkipped", "created", "finish", "removeFinalizer"}
           \/ /\ request.pc = "finalizer" /\ request.todo # {}
              /\ Remote(NextTrigger) /\ ~request.wf.finalizer
     \/ Fault("api")
  /\ Return(TRUE)
  /\ UNCHANGED <<objectVars, current, clusterVars>>

Controller ==
  \/ WriteStatus \/ EnsureDeployment \/ WriteFailure \/ ValidateBrokers
  \/ AfterTriggers \/ MutateTrigger \/ CreateTrigger \/ SyncDeploymentStatus
  \/ DeleteTriggers \/ RemoveFinalizer

-----------------------------------------------------------------------------
(* Knative, the Deployment, the garbage collector, the user and failures.  *)

BrokerReady ==
  /\ \E ns \in Namespaces \ broker : broker' = broker \cup {ns}
  /\ UNCHANGED <<objectVars, current, request, queued, triggers, deployment, faults>>

BrokerLost ==
  /\ Fault("broker")
  /\ \E ns \in broker : broker' = broker \ {ns}
  /\ UNCHANGED <<objectVars, current, request, queued, triggers, deployment>>

\* The controller watches the triggers it owns.  A trigger in another
\* namespace is mapped by a label that only those of platforms have: its loss
\* is found out by the next request, whatever that comes for.
TriggerLost ==
  /\ Fault("trigger")
  /\ \E t \in triggers : triggers' = triggers \ {t} /\ queued' = (queued \/ ~Remote(t))
  /\ UNCHANGED <<objectVars, current, request, broker, deployment>>

DeploymentUp ==
  /\ deployment \in {"progressing", "failed", "unavailable"}
  /\ deployment' = "available" /\ queued' = TRUE
  /\ UNCHANGED <<objectVars, current, request, triggers, broker, faults>>

DeploymentTrouble ==
  /\ deployment # "none" /\ Fault("deployment")
  /\ \E h \in {"none", "failed", "unavailable"} \ {deployment} : deployment' = h
  /\ queued' = TRUE
  /\ UNCHANGED <<objectVars, current, request, triggers, broker>>

\* What the workflow owns goes with it.
CollectGarbage ==
  /\ ~workflow.exists
  /\ triggers' = {t \in triggers : Remote(t)} /\ deployment' = "none"
  /\ <<triggers', deployment'>> # <<triggers, deployment>>
  /\ UNCHANGED <<objectVars, current, request, queued, broker, faults>>

UserEdits ==
  /\ workflow.exists /\ Fault("edit")
  /\ \E events \in EventSpecs \ {workflow.events} : Put([workflow EXCEPT !.events = events])
  /\ current' = FALSE
  /\ UNCHANGED <<request, queued, clusterVars>>

\* The object stays until its finalizer is gone.
UserDeletes ==
  /\ workflow.exists /\ ~workflow.deleting /\ Fault("delete")
  /\ Put([workflow EXCEPT !.deleting = TRUE, !.exists = workflow.finalizer])
  /\ current' = FALSE
  /\ UNCHANGED <<request, queued, clusterVars>>

Crash ==
  /\ Fault("crash")
  /\ request' = IdleRequest
  /\ cache' = workflow /\ cached' = TRUE /\ queued' = workflow.exists
  /\ UNCHANGED <<workflow, current, clusterVars>>

Init ==
  /\ \E events \in EventSpecs, conds \in InitialStatuses :
       workflow = [NoWorkflow EXCEPT !.exists = TRUE, !.events = events, !.conds = conds]
  /\ cache = workflow /\ cached = TRUE /\ current = FALSE /\ queued = TRUE
  /\ request = IdleRequest
  /\ triggers = {} /\ broker = {} /\ deployment = "none" /\ faults = 0

Next ==
  \/ Start \/ Controller \/ EnsureFails \/ RequestError \/ DeliverWorkflow
  \/ BrokerReady \/ BrokerLost \/ TriggerLost
  \/ DeploymentUp \/ DeploymentTrouble \/ CollectGarbage
  \/ UserEdits \/ UserDeletes \/ Crash

Spec == Init /\ [][Next]_gitOpsVars

\* The controller works on what is queued and finishes its requests, the
\* watch delivers, brokers become ready and the Deployment comes up, and the
\* garbage collector runs.  Users and faults are not fair.
FairSpec ==
  /\ Spec
  /\ WF_gitOpsVars(Start)
  /\ WF_gitOpsVars(Controller \/ RequestError)
  /\ WF_gitOpsVars(DeliverWorkflow)
  /\ SF_gitOpsVars(BrokerReady)
  /\ WF_gitOpsVars(DeploymentUp)
  /\ WF_gitOpsVars(CollectGarbage)

-----------------------------------------------------------------------------
(* Properties.                                                             *)

\* Every variable keeps its type.
GitOpsTypeOK ==
  /\ workflow \in Workflow /\ cache \in Workflow /\ cached \in BOOLEAN /\ current \in BOOLEAN
  /\ request \in Request /\ queued \in BOOLEAN
  /\ triggers \subseteq Triggers /\ broker \subseteq Namespaces /\ deployment \in Health
  /\ faults \in 0..MaxFaults

\* A trigger in another namespace exists only under the finalizer, and once
\* the workflow is gone none that its status listed is left (ensureObject,
\* setWorkflowFinalizer, cleanupTriggers), whatever the user edits and
\* deletes while a request with an older copy is running.
FinalizerGuardsTriggers ==
  /\ workflow.exists /\ ~workflow.finalizer => \A t \in triggers : ~Remote(t)
  /\ ~workflow.exists => \A t \in triggers : Remote(t) => t \notin workflow.listed

\* The status never forgets a trigger, so that the clean-up finds those of
\* sources the user has since taken away: neither the Update that sets the
\* finalizer nor a status update with an older copy loses one
\* (addToSonataFlowTriggerList).
ListedStaysListed == [][workflow.listed \subseteq workflow'.listed]_gitOpsVars

\* No trigger is left in another namespace when the workflow is gone.
NoTriggerLeft == ~workflow.exists => \A t \in triggers : ~Remote(t)

\* The workflow runs without a build, its triggers are in place and the
\* status lists them.
Deployed ==
  /\ workflow.conds["Built"] = Cond("False", "BuildSkipped") /\ IsTrue(workflow.conds["Running"])
  /\ Wanted(workflow.events) \subseteq triggers \cap workflow.listed

\* From whatever status the preview profile has left, and whatever fails on
\* the way, a workflow with an image is deployed in the end, with all its
\* triggers listed; and one that is deleted goes (ensureBuildSkipped,
\* followDeployWorkflowState, cleanupTriggers).
EventuallyDeployed == <>[](IF workflow.deleting THEN ~workflow.exists ELSE Deployed)
=============================================================================
