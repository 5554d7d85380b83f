---------------------------- MODULE ConfigProofs ----------------------------
(***************************************************************************)
(* Type correctness of WorkflowConfig, for every set of user properties    *)
(* and of platforms and every number of faults.  The property says more    *)
(* than types: a copy in the cache that is not behind is what the server   *)
(* has, although patches go over whatever there is.                        *)
(***************************************************************************)
EXTENDS WorkflowConfig, TLAPS

\* The objects a request reads and writes.
Names == {"workflow", "platform", "userProps", "managedProps", "deployment"}

\* The objects are the fields of the store and of the cache.
LEMMA ObjectNames ==
  ASSUME NEW objects \in Objects
  PROVE  DOMAIN objects = Names
BY DEF Objects, Names

\* The empty ConfigMap is one the user may have.
LEMMA EmptyPropsType == EmptyProps \in UserProps
BY ConfigAssumption, Zenon DEF ConfigAssumption, EmptyProps

\* Where a service is reached is one of the three places.
LEMMA UrlType ==
  ASSUME NEW platform \in ServicePlatform, NEW url \in Urls
  PROVE  GetServiceBaseUrl(platform) \in Urls /\ ManagedProperties(url, platform) \in Urls
BY DEF ServicePlatform, GetServiceBaseUrl, ManagedProperties, Urls

\* A fault leaves the count within its bound.
LEMMA FaultType ==
  ASSUME faults \in 0..MaxConfigFaults, NEW kind, ConfigFault(kind)
  PROVE  faults' \in 0..MaxConfigFaults
BY ConfigAssumption DEF ConfigAssumption, ConfigFault

\* The objects, the cache and what the cache is behind with.
StoreOK ==
  /\ store \in Objects /\ cache \in Objects /\ behind \subseteq DOMAIN store
  /\ \A o \in DOMAIN store \ behind : cache[o] = store[o]

\* A write of one object leaves the copies of the others as they are.
LEMMA WriteStore ==
  ASSUME StoreOK, NEW o \in Names, NEW new \in Objects, Write(o, new),
         \A other \in Names \ {o} : new[other] = store[other]
  PROVE  StoreOK'
<1>1. DOMAIN store = Names /\ DOMAIN new = Names
  BY ObjectNames DEF StoreOK
<1>2. CASE new = store
  BY <1>2 DEF Write, StoreOK
<1>3. CASE new # store
  BY <1>1, <1>3 DEF Write, StoreOK
<1>. QED
  BY <1>2, <1>3

\* So does a patch, of whatever the server has.
LEMMA PatchStore ==
  ASSUME StoreOK, NEW o \in Names, NEW wanted, NEW absent, NEW old, NEW found,
         [store EXCEPT ![o] = wanted] \in Objects,
         CreateOrPatch(o, absent, old, found, wanted)
  PROVE  StoreOK'
<1>1. CASE UNCHANGED <<store, cache, behind>>
  BY <1>1 DEF StoreOK
<1>2. CASE Write(o, [store EXCEPT ![o] = wanted])
  <2>1. \A other \in Names \ {o} : [store EXCEPT ![o] = wanted][other] = store[other]
    BY ObjectNames DEF StoreOK
  <2>. QED
    BY <1>2, <2>1, WriteStore
<1>. QED
  BY <1>1, <1>2 DEF CreateOrPatch

-----------------------------------------------------------------------------
(* The steps.                                                              *)

\* Replacing one object by one of its type leaves objects.
LEMMA ObjectsUpdated ==
  ASSUME NEW objects \in Objects
  PROVE  /\ \A url \in Urls : [objects EXCEPT !["workflow"] = url] \in Objects
         /\ \A platform \in ServicePlatform : [objects EXCEPT !["platform"] = platform] \in Objects
         /\ \A props \in UserProps \cup {Missing} : [objects EXCEPT !["userProps"] = props] \in Objects
         /\ \A props \in Urls \cup {Missing} : [objects EXCEPT !["managedProps"] = props] \in Objects
         /\ \A config \in Config : [objects EXCEPT !["deployment"] = config] \in Objects
BY DEF Objects

\* A request that starts or ends, or goes on to its status update.
LEMMA RequestTypes ==
  ASSUME configuring \in ConfigRequest
  PROVE  /\ IdleConfig \in ConfigRequest
         /\ \A pc \in {"status", "failed"} : Conclude(pc) \in ConfigRequest
BY DEF ConfigRequest, IdleConfig, Conclude, Urls, ServicePlatform

\* The absent Deployment and its pods are a Deployment and pods.
LEMMA NoConfigType == NoConfig \in Config /\ NoPods \in Pods
BY DEF NoConfig, NoPods, Config, Pods

\* The steps of a request.
LEMMA ControllerStep ==
  ASSUME ConfigTypeOK, ConfigController
  PROVE  ConfigTypeOK'
<1>a. /\ StoreOK /\ configuring \in ConfigRequest /\ pods \in Pods /\ faults \in 0..MaxConfigFaults
      /\ store \in Objects /\ cache \in Objects
  BY DEF ConfigTypeOK, StoreOK
<1>b. /\ cache.workflow \in Urls /\ cache.platform \in ServicePlatform
      /\ cache.userProps \in UserProps \cup {Missing}
      /\ configuring.url \in Urls /\ configuring.platform \in ServicePlatform
      /\ configuring.user \in UserProps \cup {Missing} /\ configuring.managed \in Urls
  BY <1>a DEF Objects, ConfigRequest
<1>c. ASSUME StoreOK', configuring' \in ConfigRequest, pods' \in Pods,
             faults' \in 0..MaxConfigFaults
      PROVE  ConfigTypeOK'
  BY <1>c DEF ConfigTypeOK, StoreOK
<1>d. ASSUME UNCHANGED <<store, cache, behind>> PROVE StoreOK'
  BY <1>a, <1>d DEF StoreOK
<1>e. "workflow" \in Names /\ "userProps" \in Names /\ "managedProps" \in Names
      /\ "deployment" \in Names
  BY DEF Names
<1>1. CASE Begin
  <2>1. configuring' \in ConfigRequest
    BY <1>1, <1>b, RequestTypes, <1>a DEF Begin, ConfigRequest, IdleConfig
  <2>. QED
    BY <1>1, <1>a, <1>c, <1>d, <2>1 DEF Begin
<1>2. CASE EnsureUserProps
  <2>1. UserPropsWanted \in UserProps \cup {Missing}
    BY <1>b, EmptyPropsType DEF UserPropsWanted
  <2>2. StoreOK'
    BY <1>2, <1>a, <1>e, <2>1, ObjectsUpdated, PatchStore DEF EnsureUserProps
  <2>3. configuring' \in ConfigRequest
    BY <1>2, <1>a, <1>b, <2>1 DEF EnsureUserProps, ConfigRequest
  <2>. QED
    BY <1>2, <1>a, <1>c, <2>2, <2>3 DEF EnsureUserProps
<1>3. CASE EnsureManagedProps
  <2>. DEFINE props == ManagedProperties(configuring.url, configuring.platform)
  <2>1. props \in Urls
    BY <1>b, UrlType
  <2>2. /\ CreateOrPatch("managedProps", Missing, store.managedProps, cache.managedProps, props)
        /\ configuring' = [configuring EXCEPT !.pc = "deployment", !.managed = props]
    BY <1>3 DEF EnsureManagedProps
  <2>. HIDE DEF props
  <2>3. StoreOK'
    BY <1>a, <1>e, <2>1, <2>2, ObjectsUpdated, PatchStore
  <2>4. configuring' \in ConfigRequest
    BY <1>a, <2>1, <2>2 DEF ConfigRequest
  <2>. QED
    BY <1>3, <1>a, <1>c, <2>3, <2>4 DEF EnsureManagedProps
<1>4. CASE EnsureConfigDeployment
  <2>1. Checksum \in Config
    BY <1>b DEF Checksum, Config
  <2>2. StoreOK'
    BY <1>4, <1>a, <1>e, <2>1, ObjectsUpdated, PatchStore DEF EnsureConfigDeployment
  <2>3. configuring' \in ConfigRequest
    BY <1>4, <1>a, RequestTypes DEF EnsureConfigDeployment
  <2>4. pods' \in Pods
    BY <1>4, <1>a DEF EnsureConfigDeployment, Pods
  <2>. QED
    BY <1>4, <1>a, <1>c, <2>2, <2>3, <2>4 DEF EnsureConfigDeployment
<1>5. CASE UpdateServiceUrls
  <2>. DEFINE url == GetServiceBaseUrl(cache.platform)
  <2>1. url \in Urls
    BY <1>b, UrlType
  <2>2. Write("workflow", [store EXCEPT !["workflow"] = url])
    BY <1>5 DEF UpdateServiceUrls
  <2>. HIDE DEF url
  <2>3. \A other \in Names \ {"workflow"} : [store EXCEPT !["workflow"] = url][other] = store[other]
    BY <1>a, ObjectNames
  <2>4. StoreOK'
    BY <1>a, <1>e, <2>1, <2>2, <2>3, ObjectsUpdated, WriteStore
  <2>. QED
    BY <1>5, <1>a, <1>c, <2>4, RequestTypes DEF UpdateServiceUrls
<1>6. CASE EnsureFails
  <2>1. faults' \in 0..MaxConfigFaults
    BY <1>6, <1>a, FaultType, Zenon DEF EnsureFails
  <2>. QED
    BY <1>6, <1>a, <1>c, <1>d, <2>1, RequestTypes DEF EnsureFails
<1>7. CASE StatusUpdateFails
  <2>1. faults' \in 0..MaxConfigFaults
    BY <1>7, <1>a, FaultType, Zenon DEF StatusUpdateFails
  <2>. QED
    BY <1>7, <1>a, <1>c, <1>d, <2>1, RequestTypes DEF StatusUpdateFails
<1>. QED
  BY <1>1, <1>2, <1>3, <1>4, <1>5, <1>6, <1>7 DEF ConfigController

\* The pods, the user, the platform and the watch.
LEMMA EnvironmentStep ==
  ASSUME ConfigTypeOK,
         \/ \E o \in behind : DeliverObject(o)
         \/ PodsRolledOut \/ PodsRestart \/ UserEditsProps \/ UserTampers \/ PlatformChanges
         \/ OperatorRestarts
  PROVE  ConfigTypeOK'
<1>a. /\ StoreOK /\ configuring \in ConfigRequest /\ pods \in Pods /\ faults \in 0..MaxConfigFaults
      /\ store \in Objects /\ cache \in Objects
  BY DEF ConfigTypeOK, StoreOK
<1>b. ASSUME StoreOK', configuring' \in ConfigRequest, pods' \in Pods,
             faults' \in 0..MaxConfigFaults
      PROVE  ConfigTypeOK'
  BY <1>b DEF ConfigTypeOK, StoreOK
<1>c. ASSUME UNCHANGED <<store, cache, behind>> PROVE StoreOK'
  BY <1>a, <1>c DEF StoreOK
<1>d. DOMAIN store = Names /\ DOMAIN cache = Names
  BY <1>a, ObjectNames
<1>e. ASSUME NEW o \in Names, NEW value, [store EXCEPT ![o] = value] \in Objects,
             Write(o, [store EXCEPT ![o] = value])
      PROVE  StoreOK'
  <2>1. \A other \in Names \ {o} : [store EXCEPT ![o] = value][other] = store[other]
    BY <1>d
  <2>. QED
    BY <1>a, <1>e, <2>1, WriteStore
<1>f. "platform" \in Names /\ "userProps" \in Names /\ "managedProps" \in Names
      /\ "deployment" \in Names
  BY DEF Names
<1>1. ASSUME NEW o \in behind, DeliverObject(o) PROVE ConfigTypeOK'
  <2>1. o \in Names
    BY <1>1, <1>a, <1>d DEF StoreOK
  <2>2. [cache EXCEPT ![o] = store[o]] \in Objects
    BY <1>a, <2>1 DEF Objects, Names
  <2>3. StoreOK'
    BY <1>1, <1>a, <1>d, <2>1, <2>2 DEF StoreOK, DeliverObject
  <2>. QED
    BY <1>1, <1>a, <1>b, <2>3 DEF DeliverObject
<1>2. \A current \in BOOLEAN : Started(current) \in Pods
  BY <1>a DEF Started, Pods, Config, ConfigOf, Objects
<1>3. CASE PodsRolledOut
  BY <1>3, <1>2, <1>a, <1>b, <1>c DEF PodsRolledOut
<1>4. CASE PodsRestart
  <2>1. pods.current \in BOOLEAN
    BY <1>a DEF Pods
  <2>. QED
    BY <1>4, <2>1, <1>2, <1>a, <1>b, <1>c, FaultType DEF PodsRestart
<1>5. CASE UserEditsProps
  <2>1. StoreOK'
    <3>1. PICK props \in UserProps \cup {Missing} :
            Write("userProps", [store EXCEPT !["userProps"] = props])
      BY <1>5 DEF UserEditsProps
    <3>. QED
      BY <1>a, <1>e, <1>f, <3>1, ObjectsUpdated
  <2>. QED
    BY <1>5, <2>1, <1>a, <1>b, FaultType DEF UserEditsProps
<1>6. CASE UserTampers
  <2>1. ASSUME \E props \in {"local", Missing} \ {store.managedProps} :
                 Write("managedProps", [store EXCEPT !.managedProps = props])
        PROVE  StoreOK'
    <3>1. PICK props \in {"local", Missing} :
            Write("managedProps", [store EXCEPT !["managedProps"] = props])
      BY <2>1
    <3>2. props \in Urls \cup {Missing}
      BY <3>1 DEF Urls
    <3>. QED
      BY <1>a, <1>e, <1>f, <3>1, <3>2, ObjectsUpdated
  <2>2. ASSUME Write("deployment", [store EXCEPT !.deployment = NoConfig]) PROVE StoreOK'
    BY <1>a, <1>e, <1>f, <2>2, ObjectsUpdated, NoConfigType
  <2>3. StoreOK' /\ pods' \in Pods
    BY <1>6, <2>1, <2>2, <1>a, NoConfigType, Zenon DEF UserTampers
  <2>. QED
    BY <1>6, <2>3, <1>a, <1>b, FaultType DEF UserTampers
<1>7. CASE PlatformChanges
  <2>1. StoreOK'
    <3>1. PICK platform \in ServicePlatform :
            Write("platform", [store EXCEPT !["platform"] = platform])
      BY <1>7 DEF PlatformChanges
    <3>. QED
      BY <1>a, <1>e, <1>f, <3>1, ObjectsUpdated
  <2>. QED
    BY <1>7, <2>1, <1>a, <1>b, FaultType DEF PlatformChanges
<1>8. CASE OperatorRestarts
  <2>1. StoreOK'
    BY <1>8, <1>a DEF OperatorRestarts, StoreOK
  <2>. QED
    BY <1>8, <2>1, <1>a, <1>b, RequestTypes, FaultType DEF OperatorRestarts
<1>. QED
  BY <1>1, <1>3, <1>4, <1>5, <1>6, <1>7, <1>8

-----------------------------------------------------------------------------
(* The theorem.                                                            *)

\* Every variable keeps its type, and a copy that is not behind is the
\* server's, whatever is edited, tampered with or fails.
THEOREM ConfigTypeCorrect == Spec => []ConfigTypeOK
<1>1. Init => ConfigTypeOK
  <2>. SUFFICES ASSUME Init PROVE ConfigTypeOK
    OBVIOUS
  <2>1. PICK platform \in InitialPlatforms, props \in UserProps \cup {Missing} :
          store = [workflow |-> "none", platform |-> platform, userProps |-> props,
                   managedProps |-> Missing, deployment |-> NoConfig]
    BY DEF Init
  <2>2. store \in Objects
    BY <2>1, ConfigAssumption, NoConfigType DEF ConfigAssumption, Objects, Urls
  <2>3. configuring \in ConfigRequest
    BY DEF Init, IdleConfig, ConfigRequest, Urls, ServicePlatform
  <2>4. faults \in 0..MaxConfigFaults
    BY ConfigAssumption DEF Init, ConfigAssumption
  <2>. QED
    BY <2>2, <2>3, <2>4, NoConfigType DEF Init, ConfigTypeOK
<1>2. ConfigTypeOK /\ [Next]_configVars => ConfigTypeOK'
  <2>1. CASE UNCHANGED configVars
    BY <2>1 DEF configVars, ConfigTypeOK
  <2>. QED
    BY <2>1, ControllerStep, EnvironmentStep DEF Next
<1>. QED
  BY <1>1, <1>2, PTL DEF Spec
=============================================================================
