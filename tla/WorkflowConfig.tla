--------------------------- MODULE WorkflowConfig ---------------------------
(***************************************************************************)
(* How the configuration of a workflow gets to its pods.  The operator     *)
(* generates managed properties from what the platform offers, beside the  *)
(* properties of the user; a checksum of both, an annotation of the pods'  *)
(* template, rolls the Deployment out when they change.                    *)
(*                                                                         *)
(* One workflow, deployed by DeploymentReconciler (the preview and GitOps  *)
(* profiles), one of the services of the platform, and a cache that lags   *)
(* behind each object.  The request is repeated for ever.                  *)
(***************************************************************************)
EXTENDS Naturals

CONSTANTS
  UserProps,        \* what the user may configure (bound)
  InitialPlatforms, \* the platforms there may be at first (bound)
  MaxConfigFaults,  \* how many edits and faults there are (bound)
  ConfigFaultKinds  \* of which kinds, out of ConfigFaults

ConfigFaults == {"api", "crash", "edit", "platform", "tamper", "restart"}

Missing == "missing"

\* What the operator puts into a ConfigMap it makes for the user.
EmptyProps == CHOOSE props \in UserProps : TRUE

\* .spec.services of the platform (without the service: "disabled") and the
\* service of the cluster platform that its status refers to.
ServicePlatform == [services : {"unset", "disabled", "enabled"}, ref : {"none", "cluster"}]

ASSUME ConfigAssumption ==
  /\ UserProps # {} /\ Missing \notin UserProps
  /\ InitialPlatforms \subseteq ServicePlatform /\ InitialPlatforms # {}
  /\ MaxConfigFaults \in Nat /\ ConfigFaultKinds \subseteq ConfigFaults

VARIABLES
  store,        \* the objects on the API server
  cache,        \* the copies in the cache of the client
  behind,       \* the objects whose copy is not the latest
  configuring,  \* the request of the workflow controller
  pods,         \* the pods of the workflow
  faults        \* edits and faults so far

configVars == <<store, cache, behind, configuring, pods, faults>>

-----------------------------------------------------------------------------
(* The objects.                                                            *)

\* Where the service is reached: in the namespace or where the cluster
\* platform points to.
Urls == {"none", "local", "cluster"}

\* What the ConfigMaps hold together: the checksum of it stands for it.
Config == [user : UserProps \cup {Missing}, managed : Urls \cup {Missing}]

NoConfig == [user |-> Missing, managed |-> Missing]

\* The workflow is its .status.services, the Deployment its checksum.
Objects ==
  [workflow : Urls, platform : ServicePlatform, userProps : UserProps \cup {Missing},
   managedProps : Urls \cup {Missing}, deployment : Config]

ConfigOf(objects) == [user |-> objects.userProps, managed |-> objects.managedProps]

\* IsServiceEnabled, GetServiceBaseUrl: a platform with services of its own
\* does not use those of the cluster platform.
GetServiceBaseUrl(platform) ==
  CASE platform.services = "enabled"  -> "local"
    [] platform.services = "disabled" -> "none"
    [] platform.services = "unset"    -> platform.ref

IsServiceEnabled(platform) == GetServiceBaseUrl(platform) # "none"

\* Seeded fault: nothing is generated without the service.
ManagedProperties_Nothing(url, platform) == IF IsServiceEnabled(platform) THEN url ELSE Missing

\* The address of an enabled service is what the status of the workflow says.
ManagedProperties(url, platform) == IF IsServiceEnabled(platform) THEN url ELSE "none"

\* The in-memory workflow with the version it was read at, the platform and
\* the user properties found on the way.
ConfigRequest ==
  [pc : {"idle", "userProps", "managedProps", "deployment", "status", "failed"}, url : Urls, fresh : BOOLEAN,
   platform : ServicePlatform, user : UserProps \cup {Missing}, managed : Urls]

IdleConfig ==
  [pc |-> "idle", url |-> "none", fresh |-> FALSE, platform |-> [services |-> "unset", ref |-> "none"],
   user |-> Missing, managed |-> "none"]

\* Whether the pods were started for the template as it is, what they read
\* when they started and (history) whether the checksum was of something else
\* at that moment.
Pods == [current : BOOLEAN, runs : Config, early : BOOLEAN]

NoPods == [current |-> FALSE, runs |-> NoConfig, early |-> FALSE]

ConfigFault(kind) ==
  /\ kind \in ConfigFaultKinds /\ faults < MaxConfigFaults
  /\ faults' = faults + 1

-----------------------------------------------------------------------------
(* The API server and the cache.                                           *)

\* A new version is on the server; the watch delivers it later.
Write(o, new) ==
  /\ store' = new
  /\ behind' = (IF new = store THEN behind ELSE behind \cup {o})
  /\ UNCHANGED cache

DeliverObject(o) ==
  /\ o \in behind
  /\ cache' = [cache EXCEPT ![o] = store[o]] /\ behind' = behind \ {o}
  /\ UNCHANGED <<store, configuring, pods, faults>>

\* controllerutil.CreateOrPatch compares what is wanted with the cached copy:
\* an object that looks right is left alone, and a patch goes through
\* whatever the server has by now.
CreateOrPatch(o, absent, old, found, wanted) ==
  \/ found = wanted /\ UNCHANGED <<store, cache, behind>>
  \/ found # wanted /\ (found = absent <=> old = absent) /\ Write(o, [store EXCEPT ![o] = wanted])

\* It fails when there turns out to be an object, or none.
CreateOrPatchFails(absent, old, found, wanted) == found # wanted /\ (found = absent) # (old = absent)

\* A status update is all that is left of a request.
Conclude(pc) == [IdleConfig EXCEPT !.pc = pc, !.fresh = configuring.fresh]

-----------------------------------------------------------------------------
(* The request.                                                            *)

Begin ==
  /\ configuring.pc = "idle"
  /\ configuring' = [IdleConfig EXCEPT !.pc = "userProps", !.url = cache.workflow,
                                       !.fresh = "workflow" \notin behind]
  /\ UNCHANGED <<store, cache, behind, pods, faults>>

\* CreateNewUserPropsConfigMap: an empty ConfigMap, if there is none.
UserPropsWanted == IF cache.userProps = Missing THEN EmptyProps ELSE cache.userProps

\* ensureObjects finds the platform and the ConfigMap of the user.
EnsureUserProps ==
  /\ configuring.pc = "userProps"
  /\ CreateOrPatch("userProps", Missing, store.userProps, cache.userProps, UserPropsWanted)
  /\ configuring' = [configuring EXCEPT !.pc = "managedProps", !.platform = cache.platform,
                                       !.user = UserPropsWanted]
  /\ UNCHANGED <<pods, faults>>

\* ManagedPropertiesMutateVisitor.
EnsureManagedProps ==
  /\ configuring.pc = "managedProps"
  /\ LET props == ManagedProperties(configuring.url, configuring.platform)
     IN /\ CreateOrPatch("managedProps", Missing, store.managedProps, cache.managedProps, props)
        /\ configuring' = [configuring EXCEPT !.pc = "deployment", !.managed = props]
  /\ UNCHANGED <<pods, faults>>

\* calculateHash.
Checksum == [user |-> configuring.user, managed |-> configuring.managed]

\* RolloutDeploymentIfCMChangedMutateVisitor: another checksum, and with it
\* the time of the restart, is another template.
EnsureConfigDeployment ==
  /\ configuring.pc = "deployment"
  /\ CreateOrPatch("deployment", NoConfig, store.deployment, cache.deployment, Checksum)
  /\ pods' = [pods EXCEPT !.current = @ /\ cache.deployment = Checksum]
  /\ configuring' = Conclude("status")
  /\ UNCHANGED faults

\* Seeded fault: the address is not cleared first.
UpdateServiceUrls_NoReset ==
  /\ configuring.pc \in {"status", "failed"} /\ configuring.fresh
  /\ Write("workflow", [store EXCEPT !.workflow = IF IsServiceEnabled(cache.platform)
                                                  THEN GetServiceBaseUrl(cache.platform) ELSE @])
  /\ configuring' = IdleConfig
  /\ UNCHANGED <<pods, faults>>

\* PerformStatusUpdate looks the platform up once more and records the
\* address of its service.
UpdateServiceUrls ==
  /\ configuring.pc \in {"status", "failed"} /\ configuring.fresh
  /\ Write("workflow", [store EXCEPT !.workflow = GetServiceBaseUrl(cache.platform)])
  /\ configuring' = IdleConfig
  /\ UNCHANGED <<pods, faults>>

\* An object that cannot be ensured ends the request, after the status has
\* been updated like at its end, ...
EnsureFails ==
  /\ \/ /\ UNCHANGED faults
        /\ \/ /\ configuring.pc = "userProps"
              /\ CreateOrPatchFails(Missing, store.userProps, cache.userProps, UserPropsWanted)
           \/ /\ configuring.pc = "managedProps"
              /\ CreateOrPatchFails(Missing, store.managedProps, cache.managedProps,
                                    ManagedProperties(configuring.url, configuring.platform))
           \/ /\ configuring.pc = "deployment"
              /\ CreateOrPatchFails(NoConfig, store.deployment, cache.deployment, Checksum)
     \/ configuring.pc \in {"userProps", "managedProps", "deployment"} /\ ConfigFault("api")
  /\ configuring' = Conclude("failed")
  /\ UNCHANGED <<store, cache, behind, pods>>

\* ... if it can be.
StatusUpdateFails ==
  /\ configuring.pc \in {"status", "failed"}
  /\ (~configuring.fresh /\ UNCHANGED faults) \/ ConfigFault("api")
  /\ configuring' = IdleConfig
  /\ UNCHANGED <<store, cache, behind, pods>>

ConfigController ==
  \/ Begin \/ EnsureUserProps \/ EnsureManagedProps \/ EnsureConfigDeployment
  \/ UpdateServiceUrls \/ EnsureFails \/ StatusUpdateFails

-----------------------------------------------------------------------------
(* The pods, the user, the platform and failures.                          *)

\* A pod reads its configuration when it starts, and cannot start without
\* the ConfigMaps.
CanStart == store.deployment # NoConfig /\ store.userProps # Missing /\ store.managedProps # Missing

Started(current) ==
  [current |-> current, runs |-> ConfigOf(store), early |-> store.deployment # ConfigOf(store)]

PodsRolledOut ==
  /\ ~pods.current /\ CanStart
  /\ pods' = Started(TRUE)
  /\ UNCHANGED <<store, cache, behind, configuring, faults>>

PodsRestart ==
  /\ pods.runs # NoConfig /\ CanStart /\ ConfigFault("restart")
  /\ pods' = Started(pods.current)
  /\ UNCHANGED <<store, cache, behind, configuring>>

\* The user edits or deletes the ConfigMap that is meant to be edited, ...
UserEditsProps ==
  /\ ConfigFault("edit")
  /\ \E props \in (UserProps \cup {Missing}) \ {store.userProps} :
       Write("userProps", [store EXCEPT !.userProps = props])
  /\ UNCHANGED <<configuring, pods>>

\* ... the one that is not, or the Deployment.
UserTampers ==
  /\ ConfigFault("tamper")
  /\ \/ /\ \E props \in {"local", Missing} \ {store.managedProps} :
             Write("managedProps", [store EXCEPT !.managedProps = props])
        /\ UNCHANGED pods
     \/ /\ store.deployment # NoConfig
        /\ Write("deployment", [store EXCEPT !.deployment = NoConfig])
        /\ pods' = NoPods
  /\ UNCHANGED configuring

\* The services of the platform, or of the cluster platform, change.
PlatformChanges ==
  /\ ConfigFault("platform")
  /\ \E platform \in ServicePlatform \ {store.platform} :
       Write("platform", [store EXCEPT !.platform = platform])
  /\ UNCHANGED <<configuring, pods>>

OperatorRestarts ==
  /\ ConfigFault("crash")
  /\ configuring' = IdleConfig /\ cache' = store /\ behind' = {}
  /\ UNCHANGED <<store, pods>>

Init ==
  /\ \E platform \in InitialPlatforms, props \in UserProps \cup {Missing} :
       store = [workflow |-> "none", platform |-> platform, userProps |-> props,
                managedProps |-> Missing, deployment |-> NoConfig]
  /\ cache = store /\ behind = {}
  /\ configuring = IdleConfig
  /\ pods = NoPods
  /\ faults = 0

Next ==
  \/ ConfigController \/ \E o \in behind : DeliverObject(o)
  \/ PodsRolledOut \/ PodsRestart
  \/ UserEditsProps \/ UserTampers \/ PlatformChanges \/ OperatorRestarts

Spec == Init /\ [][Next]_configVars

\* Requests are repeated (RequeueAfterIsRunning) and finish, the watch
\* delivers each object, and a rollout that can go on ends.
FairSpec ==
  /\ Spec
  /\ WF_configVars(ConfigController)
  /\ \A o \in {"workflow", "platform", "userProps", "managedProps", "deployment"} : WF_configVars(DeliverObject(o))
  /\ WF_configVars(PodsRolledOut)

-----------------------------------------------------------------------------
(* Properties.                                                             *)

\* Every variable keeps its type, and a copy that is not behind is the
\* server's.
ConfigTypeOK ==
  /\ store \in Objects /\ cache \in Objects /\ behind \subseteq DOMAIN store
  /\ \A o \in DOMAIN store \ behind : cache[o] = store[o]
  /\ configuring \in ConfigRequest /\ pods \in Pods /\ faults \in 0..MaxConfigFaults

\* What the platform offers and the user wants is in the ConfigMaps, in the
\* status and in the checksum, and the pods run with it: unless they started
\* while the ConfigMaps were ahead of the checksum, since an edit undone before
\* the next request leaves the checksum as it is.
Settled ==
  /\ store.workflow = GetServiceBaseUrl(store.platform)
  /\ store.managedProps = store.workflow /\ store.userProps # Missing
  /\ store.deployment = ConfigOf(store)
  /\ pods.current
  /\ pods.runs = ConfigOf(store) \/ pods.early

\* Whatever is edited, deleted or fails, and although the properties are
\* made from the status before and patched over what the cache has, the
\* rollouts come to an end with the configuration in place
\* (ensureObjects, PerformStatusUpdate, AnnotateDeploymentConfigChecksum).
ConfigSettles == <>[]Settled
=============================================================================
