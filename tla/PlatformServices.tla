-------------------------- MODULE PlatformServices --------------------------
(***************************************************************************)
(* What the platform controller does for a platform that is ready: the     *)
(* service action sets up the Data Index and the Job Service with their    *)
(* Knative triggers and sink bindings, and a platform that is being        *)
(* deleted has its triggers in other namespaces cleaned up by a finalizer. *)
(*                                                                         *)
(* ConfigMaps, Services and the contents of all objects are left out.  The *)
(* platform's own life is in Platform; its defaults are already applied.   *)
(***************************************************************************)
EXTENDS Naturals, FiniteSets

CONSTANTS
  Services,       \* the supporting services, in Order
  Order,          \* Order[i] is the i-th service the action sets up
  TriggersOf,     \* how many triggers a service has
  SinkService,    \* the services that need K_SINK when a sink is set
  Specs,          \* the specs a user may write (bound)
  Lagging,        \* the cached copy of the platform may lag behind
  MaxFaults,      \* how many faults, edits and deletions there are (bound)
  FaultKinds      \* of which kinds, out of ServiceFaults

ServiceFaults == {"api", "ksink", "crash", "broker", "trigger", "edit", "delete"}

\* Where the broker of a service is: in the platform's namespace or not.
Namespaces == {"own", "other"}

\* The services in .spec.services, the broker each has its events from and
\* whether there is a sink.
PlatformSpec == [services : SUBSET Services, source : [Services -> Namespaces \cup {"none"}], sink : BOOLEAN]

ASSUME ServicesAssumption ==
  /\ IsFiniteSet(Services)
  /\ Order \in [1..Cardinality(Services) -> Services]
  /\ \A s \in Services : \E i \in DOMAIN Order : Order[i] = s
  /\ TriggersOf \in [Services -> Nat]
  /\ SinkService \subseteq Services
  /\ Specs \subseteq PlatformSpec /\ Lagging \in BOOLEAN
  /\ MaxFaults \in Nat /\ FaultKinds \subseteq ServiceFaults

VARIABLES
  platform,   \* the SonataFlowPlatform on the API server
  cached,     \* the cached copy is the server's
  current,    \* the request's copy has the server's resource version
  request,    \* the request of the platform controller
  queued,     \* the platform is in the work queue
  triggers,   \* the triggers that exist
  broker,     \* the brokers that are ready, by namespace
  deployment, \* the replicas of each service's Deployment
  binding,    \* the sink binding of each service
  dropped,    \* history: an error of the K_SINK check was dropped
  faults      \* faults injected, edits and deletions so far

serverVars == <<platform, cached, current, queued>>
knativeVars == <<triggers, broker, deployment, binding>>
serviceVars == <<serverVars, request, knativeVars, dropped, faults>>

-----------------------------------------------------------------------------
(* The objects.                                                            *)

\* A trigger of a service in a namespace.
Triggers == UNION {[svc : {s}, n : 1..TriggersOf[s], ns : Namespaces] : s \in Services}

\* SonataFlowPlatform: .metadata, .spec and .status.triggers.  When the
\* object is gone the record keeps what its status listed last.
PlatformObject ==
  [exists : BOOLEAN, deleting : BOOLEAN, finalizer : BOOLEAN, spec : Specs, listed : SUBSET Triggers]

RequestSteps == {"idle", "defaultsStatus", "defaultsSpec", "deployment", "broker", "finalizer",
                 "trigger", "status", "sink", "writeSpec", "writeStatus", "cleanup", "removeFinalizer"}

\* The target of a request, the service it is at and the triggers it still
\* has to create for it.
ServiceRequest ==
  [pc : RequestSteps, at : 0..(Cardinality(Services) + 1), spec : Specs, finalizer : BOOLEAN,
   listed : SUBSET Triggers, todo : SUBSET Triggers]

IdleRequest ==
  [pc |-> "idle", at |-> 0, spec |-> CHOOSE s \in Specs : TRUE, finalizer |-> FALSE, listed |-> {},
   todo |-> {}]

svc == Order[request.at]

\* Seeded fault: a broker without a namespace is not taken for one here.
Wanted_NoDefault(spec, s) ==
  [svc : {s}, n : 1..TriggersOf[s], ns : {IF spec.source[s] = "own" THEN "" ELSE spec.source[s]}]

\* The triggers GenerateKnativeResources asks for.
Wanted(spec, s) ==
  IF s \in spec.services /\ spec.source[s] # "none"
  THEN [svc : {s}, n : 1..TriggersOf[s], ns : {spec.source[s]}]
  ELSE {}

NeedsSink(spec, s) == s \in SinkService /\ spec.sink

\* CheckKSinkInjected: without a sink there is nothing to wait for.
KSinkInjected(spec, s) == NeedsSink(spec, s) => binding[s] = "provided"

Remote(t) == t.ns # "own"

Fault(kind) ==
  /\ kind \in FaultKinds /\ faults < MaxFaults
  /\ faults' = faults + 1

-----------------------------------------------------------------------------
(* The server.                                                             *)

\* The server stores a new platform: the copy of a running request is out of
\* date, and so is the cached one until the watch delivers.
Put(new) ==
  /\ platform' = new
  /\ IF new = platform THEN UNCHANGED <<cached, current, queued>>
     ELSE /\ current' = FALSE
          /\ cached' = ~Lagging
          /\ queued' = (queued \/ ~Lagging)

\* SafeUpdatePlatform and SafeUpdatePlatformStatus start from the cached
\* object and put the whole spec or status over it.
CanWrite == platform.exists /\ cached

DeliverPlatform ==
  /\ ~cached /\ cached' = TRUE /\ queued' = TRUE
  /\ UNCHANGED <<platform, current, request, knativeVars, dropped, faults>>

\* The request ends: with an error, or when it is not done, it comes back.
Return(again) ==
  /\ request' = IdleRequest
  /\ queued' = (queued \/ again)

-----------------------------------------------------------------------------
(* A request: serviceAction.Handle, for the services in the spec in order. *)

\* The next service in the spec from the i-th on, or the end of the action.
NextService(req, i) ==
  LET later == {j \in DOMAIN Order : j >= i /\ Order[j] \in req.spec.services}
  IN IF later = {} THEN [req EXCEPT !.pc = "writeSpec", !.at = 0, !.todo = {}]
     ELSE [req EXCEPT !.pc = "deployment", !.todo = {},
                      !.at = CHOOSE j \in later : \A k \in later : j <= k]

\* A platform that is being deleted is only cleaned up.
Start ==
  /\ request.pc = "idle" /\ queued
  /\ queued' = FALSE
  /\ IF platform.exists
     THEN /\ request' = [IdleRequest EXCEPT
                           !.pc = IF platform.deleting /\ platform.finalizer THEN "cleanup" ELSE "defaultsStatus",
                           !.spec = platform.spec, !.finalizer = platform.finalizer,
                           !.listed = platform.listed]
          /\ current' = TRUE
     ELSE UNCHANGED <<request, current>>
  /\ UNCHANGED <<platform, cached, knativeVars, dropped, faults>>

\* Writes of the whole status and of the whole spec: in
\* CreateOrUpdateWithDefaults, at the end of a request, and of the status
\* after the triggers of a service.
PutStatus(next) ==
  /\ CanWrite
  /\ Put([platform EXCEPT !.listed = request.listed])
  /\ request' = next
  /\ UNCHANGED <<knativeVars, dropped, faults>>

PutSpec(next) ==
  /\ CanWrite
  /\ Put([platform EXCEPT !.spec = request.spec])
  /\ request' = next
  /\ UNCHANGED <<knativeVars, dropped, faults>>

DefaultsStatus == request.pc = "defaultsStatus" /\ PutStatus([request EXCEPT !.pc = "defaultsSpec"])

DefaultsSpec == request.pc = "defaultsSpec" /\ PutSpec(NextService(request, 1))

\* createOrUpdateDeployment: no replicas before K_SINK is injected.
EnsureDeployment ==
  /\ request.pc = "deployment"
  /\ deployment' = [deployment EXCEPT ![svc] = IF KSinkInjected(request.spec, svc) THEN "up" ELSE "zero"]
  /\ queued' = (queued \/ deployment' # deployment)
  /\ request' = [request EXCEPT !.pc = "broker"]
  /\ UNCHANGED <<platform, cached, current, triggers, broker, binding, dropped, faults>>

\* An error of the K_SINK check: the Deployment is left as it is and the
\* action goes on as if it had been ensured.
SkipDeployment ==
  /\ request.pc = "deployment" /\ NeedsSink(request.spec, svc) /\ Fault("ksink")
  /\ dropped' = TRUE
  /\ request' = [request EXCEPT !.pc = "broker"]
  /\ UNCHANGED <<serverVars, knativeVars>>

\* Seeded fault: the error is dropped, and nobody watches brokers.
BrokerNotReady_Dropped == Return(FALSE)

\* The action fails and is tried again.
BrokerNotReady == Return(TRUE)

\* GenerateKnativeResources: the broker has to be ready, if there is one.
ValidateBroker ==
  /\ request.pc = "broker"
  /\ LET ns == request.spec.source[svc] IN
     IF ns = "none"
     THEN request' = [request EXCEPT !.pc = "status"] /\ UNCHANGED queued
     ELSE IF ns \in broker
     THEN /\ request' = [request EXCEPT !.pc = "finalizer", !.todo = Wanted(request.spec, svc)]
          /\ UNCHANGED queued
     ELSE BrokerNotReady
  /\ UNCHANGED <<platform, cached, current, knativeVars, dropped, faults>>

\* Seeded fault: no finalizer is set.
SetFinalizer_Never ==
  /\ request.pc = "finalizer"
  /\ request' = [request EXCEPT !.pc = IF request.todo = {} THEN "status" ELSE "trigger"]
  /\ UNCHANGED <<serverVars, knativeVars, dropped, faults>>

\* setSonataFlowPlatformFinalizer, before the next trigger.  The target is
\* overwritten with the server's answer: what its status had and the server's
\* has not is lost.
SetFinalizer ==
  /\ request.pc = "finalizer"
  /\ IF request.todo = {} THEN request' = [request EXCEPT !.pc = "status"] /\ UNCHANGED serverVars
     ELSE IF (\A t \in request.todo : ~Remote(t)) \/ request.finalizer
     THEN request' = [request EXCEPT !.pc = "trigger"] /\ UNCHANGED serverVars
     ELSE /\ platform.exists /\ current
          /\ platform' = [platform EXCEPT !.finalizer = TRUE, !.spec = request.spec]
          /\ cached' = ~Lagging /\ queued' = (queued \/ ~Lagging)
          /\ request' = [request EXCEPT !.pc = "trigger", !.finalizer = TRUE, !.listed = platform.listed]
          /\ UNCHANGED current
  /\ UNCHANGED <<knativeVars, dropped, faults>>

\* One trigger is created, or found, and added to the list in memory.
CreateTrigger ==
  /\ request.pc = "trigger"
  /\ LET t == CHOOSE t \in request.todo : \A u \in request.todo : t.n <= u.n
     IN /\ triggers' = triggers \cup {t}
        /\ request' = [request EXCEPT !.pc = "finalizer", !.todo = @ \ {t}, !.listed = @ \cup {t}]
  /\ queued' = (queued \/ triggers' # triggers)
  /\ UNCHANGED <<platform, cached, current, broker, deployment, binding, dropped, faults>>

UpdateTriggerList == request.pc = "status" /\ PutStatus([request EXCEPT !.pc = "sink"])

\* The sink binding is created, and the action ends in an error as long as
\* K_SINK is not injected.
EnsureSinkBinding ==
  /\ request.pc = "sink"
  /\ IF ~NeedsSink(request.spec, svc)
     THEN request' = NextService(request, request.at + 1) /\ UNCHANGED <<binding, queued>>
     ELSE IF binding[svc] = "provided"
     THEN request' = NextService(request, request.at + 1) /\ UNCHANGED <<binding, queued>>
     ELSE binding' = [binding EXCEPT ![svc] = "created"] /\ Return(TRUE)
  /\ UNCHANGED <<platform, cached, current, triggers, broker, deployment, dropped, faults>>

WriteSpec == request.pc = "writeSpec" /\ PutSpec([request EXCEPT !.pc = "writeStatus"])

\* The platform is ready: the request does not come back by itself.
WriteStatus == request.pc = "writeStatus" /\ PutStatus(IdleRequest)

\* cleanupTriggers deletes what the status lists, ...
DeleteTrigger ==
  /\ request.pc = "cleanup"
  /\ IF request.todo = request.listed
     THEN request' = [request EXCEPT !.pc = "removeFinalizer"] /\ UNCHANGED triggers
     ELSE \E t \in request.listed \ request.todo :
            /\ triggers' = triggers \ {t}
            /\ request' = [request EXCEPT !.todo = @ \cup {t}]
  /\ UNCHANGED <<serverVars, broker, deployment, binding, dropped, faults>>

\* ... and lets the platform go.
RemoveFinalizer ==
  /\ request.pc = "removeFinalizer"
  /\ platform.exists /\ current
  /\ Put([platform EXCEPT !.exists = FALSE, !.finalizer = FALSE])
  /\ request' = IdleRequest
  /\ UNCHANGED <<knativeVars, dropped, faults>>

\* A write that conflicts for good or whose object is gone, or a request the
\* server refuses.
RequestError ==
  /\ request.pc # "idle"
  /\ \/ /\ request.pc \in {"defaultsStatus", "defaultsSpec", "status", "writeSpec", "writeStatus"}
        /\ ~CanWrite /\ UNCHANGED faults
     \/ /\ \/ request.pc = "finalizer" /\ (\E t \in request.todo : Remote(t)) /\ ~request.finalizer
           \/ request.pc = "removeFinalizer"
        /\ ~(platform.exists /\ current) /\ UNCHANGED faults
     \/ Fault("api")
  /\ Return(TRUE)
  /\ UNCHANGED <<platform, cached, current, knativeVars, dropped>>

Controller ==
  \/ DefaultsStatus \/ DefaultsSpec
  \/ EnsureDeployment \/ SkipDeployment
  \/ ValidateBroker \/ SetFinalizer \/ CreateTrigger \/ UpdateTriggerList \/ EnsureSinkBinding
  \/ WriteSpec \/ WriteStatus
  \/ DeleteTrigger \/ RemoveFinalizer \/ RequestError

-----------------------------------------------------------------------------
(* Knative, the garbage collector, the user and failures.                  *)

BrokerReady ==
  /\ \E ns \in Namespaces \ broker : broker' = broker \cup {ns}
  /\ UNCHANGED <<serverVars, request, triggers, deployment, binding, dropped, faults>>

BrokerLost ==
  /\ Fault("broker")
  /\ \E ns \in broker : broker' = broker \ {ns}
  /\ UNCHANGED <<serverVars, request, triggers, deployment, binding, dropped>>

\* Knative finds the sink of a binding; the controller watches the bindings
\* it owns.
SinkProvided ==
  /\ \E s \in Services : binding[s] = "created" /\ binding' = [binding EXCEPT ![s] = "provided"]
  /\ queued' = TRUE
  /\ UNCHANGED <<platform, cached, current, request, triggers, broker, deployment, dropped, faults>>

\* Somebody deletes a trigger; the labels of one in another namespace name
\* the platform to be woken.
TriggerLost ==
  /\ Fault("trigger")
  /\ \E t \in triggers : triggers' = triggers \ {t}
  /\ queued' = TRUE
  /\ UNCHANGED <<platform, cached, current, request, broker, deployment, binding, dropped>>

\* What the platform owns goes with it.
CollectGarbage ==
  /\ ~platform.exists
  /\ triggers' = {t \in triggers : Remote(t)}
  /\ deployment' = [s \in Services |-> "none"]
  /\ binding' = [s \in Services |-> "none"]
  /\ <<triggers', deployment', binding'>> # <<triggers, deployment, binding>>
  /\ UNCHANGED <<serverVars, request, broker, dropped, faults>>

UserEdits ==
  /\ platform.exists /\ Fault("edit")
  /\ \E spec \in Specs \ {platform.spec} : Put([platform EXCEPT !.spec = spec])
  /\ UNCHANGED <<request, knativeVars, dropped>>

UserDeletes ==
  /\ platform.exists /\ ~platform.deleting /\ Fault("delete")
  /\ Put([platform EXCEPT !.deleting = TRUE, !.exists = platform.finalizer])
  /\ UNCHANGED <<request, knativeVars, dropped>>

Crash ==
  /\ Fault("crash")
  /\ request' = IdleRequest /\ cached' = TRUE /\ queued' = platform.exists
  /\ UNCHANGED <<platform, current, knativeVars, dropped>>

Init ==
  /\ \E spec \in Specs :
       platform = [exists |-> TRUE, deleting |-> FALSE, finalizer |-> FALSE, spec |-> spec, listed |-> {}]
  /\ cached = TRUE /\ current = FALSE /\ queued = TRUE
  /\ request = IdleRequest
  /\ triggers = {} /\ broker = {}
  /\ deployment = [s \in Services |-> "none"] /\ binding = [s \in Services |-> "none"]
  /\ dropped = FALSE /\ faults = 0

Next ==
  \/ Start \/ Controller \/ DeliverPlatform
  \/ BrokerReady \/ BrokerLost \/ SinkProvided \/ TriggerLost \/ CollectGarbage
  \/ UserEdits \/ UserDeletes \/ Crash

Spec == Init /\ [][Next]_serviceVars

\* The controller works on what is queued, watches deliver, brokers become
\* ready and Knative provides the sinks.  Users and faults are not fair.
FairSpec ==
  /\ Spec
  /\ WF_serviceVars(Start)
  /\ WF_serviceVars(Controller)
  /\ WF_serviceVars(DeliverPlatform)
  /\ WF_serviceVars(SinkProvided)
  /\ SF_serviceVars(BrokerReady)
  /\ WF_serviceVars(CollectGarbage)

-----------------------------------------------------------------------------
(* Properties.                                                             *)

\* Every variable keeps its type.
ServicesTypeOK ==
  /\ platform \in PlatformObject /\ request \in ServiceRequest
  /\ cached \in BOOLEAN /\ current \in BOOLEAN /\ queued \in BOOLEAN /\ dropped \in BOOLEAN
  /\ triggers \subseteq Triggers /\ broker \subseteq Namespaces
  /\ deployment \in [Services -> {"none", "zero", "up"}]
  /\ binding \in [Services -> {"none", "created", "provided"}]
  /\ faults \in 0..MaxFaults

\* A platform never goes without the controller knowing of its triggers in
\* other namespaces: the finalizer is there before the first of them and
\* until the last one listed is gone (setSonataFlowPlatformFinalizer,
\* cleanupTriggers).
PlatformFinalizerGuardsTriggers ==
  /\ platform.exists /\ ~platform.finalizer => \A t \in triggers : ~Remote(t)
  /\ ~platform.exists => \A t \in triggers : Remote(t) => t \notin platform.listed

\* Whatever fails on the way, the services of a platform end up running,
\* with the sink they need, their triggers in place and listed in the status;
\* and a deleted platform goes.  An error of the K_SINK check breaks it: it is
\* dropped and the request is not repeated (k8s.go, createOrUpdateDeployment).
ServicesComplete ==
  \/ dropped \/ ~platform.exists
  \/ /\ ~platform.deleting
     /\ \A s \in platform.spec.services :
          /\ deployment[s] = "up" /\ KSinkInjected(platform.spec, s)
          /\ Wanted(platform.spec, s) \subseteq triggers \cap platform.listed

EventuallyComplete == <>[]ServicesComplete
=============================================================================
