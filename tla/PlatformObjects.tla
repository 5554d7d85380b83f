--------------------------- MODULE PlatformObjects ---------------------------
(***************************************************************************)
(* The objects that the SonataFlowPlatform and the                         *)
(* SonataFlowClusterPlatform controllers work on and wake each other by:   *)
(* the platforms of one namespace, the cluster platforms, the informer     *)
(* cache of both and the work queues.  A resource version is abstracted to *)
(* whether the cached copy is behind the server's.                         *)
(***************************************************************************)
EXTENDS Conditions, Naturals, FiniteSets

CONSTANTS
  Platforms,         \* the names a platform of the namespace may have
  Default,           \* the name of the platform the operator creates itself
  WithCache,         \* the platforms whose spec enables the Kaniko cache
  ClusterPlatforms,  \* the names a cluster platform may have
  Secondary,         \* the objects with the secondary platform annotation
  Scenarios,         \* sets of objects: the user creates those of one (bound)
  OpenShift,         \* the cluster is an OpenShift cluster
  Lagging,           \* the objects whose cached copy may lag behind the server
  MaxVersion,        \* the last version of a spec the user writes (bound)
  MaxFaults,         \* how many faults, edits and deletions there are (bound)
  FaultKinds         \* of which kinds, out of PlatformFaults

PlatformFaults == {"api", "crash", "warmer", "edit", "delete"}

ASSUME PlatformAssumption ==
  /\ Default \in Platforms
  /\ WithCache \subseteq Platforms
  /\ Secondary \subseteq Platforms \cup ClusterPlatforms
  /\ Platforms \cap ClusterPlatforms = {}
  /\ "none" \notin Platforms \cup ClusterPlatforms
  /\ Scenarios \subseteq SUBSET (Platforms \cup ClusterPlatforms)
  /\ Lagging \subseteq Platforms \cup ClusterPlatforms
  /\ OpenShift \in BOOLEAN
  /\ MaxVersion \in Nat \ {0} /\ MaxFaults \in Nat
  /\ FaultKinds \subseteq PlatformFaults

VARIABLES
  platform,    \* the SonataFlowPlatforms on the API server
  seen,        \* the SonataFlowPlatforms in the informer cache
  cplatform,   \* the SonataFlowClusterPlatforms on the API server
  cseen,       \* the SonataFlowClusterPlatforms in the informer cache
  behind,      \* the objects whose cached copy is not the server's version
  queued,      \* the platforms and cluster platforms in the work queues
  creatable,   \* the objects the user creates
  faults       \* faults injected and objects edited or deleted so far

objectVars == <<platform, seen, cplatform, cseen, behind, queued>>
userVars == <<creatable>>

-----------------------------------------------------------------------------
(* The objects.                                                            *)

PlatformReasons == {"", "Duplicated", "Creating", "Warming", "Failure", "PlatformNotFound"}

SucceedCondition == [status : {"nil", "True", "False", "Unknown"}, reason : PlatformReasons]

\* The spec is a version: 0 is what the operator writes for a platform of
\* its own, the user's start at 1.
Versions == 0..MaxVersion

\* SonataFlowPlatform: .spec, the top-level condition of the status and
\* .status.clusterPlatformRef.
Platform == [exists : BOOLEAN, spec : Versions, cond : SucceedCondition,
             ref : ClusterPlatforms \cup {"none"}]

NoPlatform == [exists |-> FALSE, spec |-> 0, cond |-> NilCond, ref |-> "none"]

\* SonataFlowClusterPlatform: .spec.platformRef, whether .spec.capabilities
\* is there, and the condition.
ClusterPlatform == [exists : BOOLEAN, to : Platforms, capable : BOOLEAN, cond : SucceedCondition]

NoClusterPlatform == [exists |-> FALSE, to |-> Default, capable |-> FALSE, cond |-> NilCond]

Duplicated == Cond("False", "Duplicated")

IsReady(o) == IsTrue(o.cond)

IsDuplicated(o) == o.cond = Duplicated

\* InitializeConditions, with the succeed condition on its own.
InitializedCond(c) == InitializeConditions([s \in {"Succeed"} |-> c], "Succeed", {})["Succeed"]

Primary(names) == names \ Secondary

\* IsActive of a platform: one the controller has not looked at yet is, too.
PlatformIsActive(o) == ~IsDuplicated(o)

\* IsActive of a cluster platform.
ClusterPlatformIsActive(o) == IsReady(o) /\ ~IsDuplicated(o)

\* The cluster platforms GetActiveClusterPlatform may return: the first one
\* in the order of the cache, which is arbitrary.
ActiveClusterPlatforms(cs) ==
  LET active == {c \in Primary(ClusterPlatforms) : cs[c].exists /\ ClusterPlatformIsActive(cs[c])}
  IN IF active = {} THEN {"none"} ELSE active

-----------------------------------------------------------------------------
(* Events.  A change wakes the controllers when it reaches the cache.      *)

\* The watches of both controllers on a platform p: p itself, and when p is
\* what the active cluster platform a refers to, that one and the platforms
\* other than p.
WokenByPlatform(p, a) ==
  {p} \cup (IF a # "none" /\ cseen[a].to = p THEN {a} \cup Platforms ELSE {})

\* Seeded fault: the platforms are not watching.
WokenByClusterPlatform_Only(c, old, new) == {c}

\* The watches on a cluster platform c.  An update is mapped by its old and
\* its new object.
WokenByClusterPlatform(c, old, new) ==
  {c} \cup (IF \E o \in {old, new} : o.exists /\ ClusterPlatformIsActive(o)
            THEN Platforms \cup ClusterPlatforms ELSE {})

PlatformEvent(p) ==
  \E a \in ActiveClusterPlatforms(cseen) : queued' = queued \cup WokenByPlatform(p, a)

\* The server stores new as platform p, in a new version unless it is equal.
PutPlatform(p, new) ==
  /\ platform' = [platform EXCEPT ![p] = new]
  /\ IF new = platform[p] THEN UNCHANGED <<seen, behind, queued>>
     ELSE IF p \in Lagging THEN behind' = behind \cup {p} /\ UNCHANGED <<seen, queued>>
     ELSE seen' = [seen EXCEPT ![p] = new] /\ PlatformEvent(p) /\ UNCHANGED behind
  /\ UNCHANGED <<cplatform, cseen>>

\* The same for a cluster platform, by a controller that leaves q queued.
StoreClusterPlatform(c, new, q) ==
  /\ cplatform' = [cplatform EXCEPT ![c] = new]
  /\ IF new = cplatform[c] THEN queued' = q /\ UNCHANGED <<cseen, behind>>
     ELSE IF c \in Lagging THEN behind' = behind \cup {c} /\ queued' = q /\ UNCHANGED cseen
     ELSE /\ cseen' = [cseen EXCEPT ![c] = new]
          /\ queued' = q \cup WokenByClusterPlatform(c, cseen[c], new)
          /\ UNCHANGED behind
  /\ UNCHANGED <<platform, seen>>

PutClusterPlatform(c, new) == StoreClusterPlatform(c, new, queued)

\* The informers deliver what has changed.
DeliverPlatform(p) ==
  /\ p \in behind /\ behind' = behind \ {p}
  /\ seen' = [seen EXCEPT ![p] = platform[p]]
  /\ PlatformEvent(p)
  /\ UNCHANGED <<platform, cplatform, cseen>>

DeliverClusterPlatform(c) ==
  /\ c \in behind /\ behind' = behind \ {c}
  /\ cseen' = [cseen EXCEPT ![c] = cplatform[c]]
  /\ queued' = queued \cup WokenByClusterPlatform(c, cseen[c], cplatform[c])
  /\ UNCHANGED <<platform, seen, cplatform>>

Fault(kind) ==
  /\ kind \in FaultKinds /\ faults < MaxFaults
  /\ faults' = faults + 1

ObjectsInit ==
  /\ platform = [p \in Platforms |-> NoPlatform]
  /\ seen = platform
  /\ cplatform = [c \in ClusterPlatforms |-> NoClusterPlatform]
  /\ cseen = cplatform
  /\ behind = {}
  /\ queued = {}
  /\ creatable \in Scenarios
  /\ faults = 0

-----------------------------------------------------------------------------
(* The user.                                                               *)

\* Creates a platform, in an order and at a moment of his own.
UserCreatesPlatform(p) ==
  /\ p \in creatable
  /\ ~platform[p].exists
  /\ PutPlatform(p, [NoPlatform EXCEPT !.exists = TRUE, !.spec = 1])
  /\ UNCHANGED <<creatable, faults>>

\* Edits the spec of a platform, whoever has created it.
UserEditsPlatform(p) ==
  /\ platform[p].exists /\ platform[p].spec < MaxVersion
  /\ Fault("edit")
  /\ PutPlatform(p, [platform[p] EXCEPT !.spec = @ + 1])
  /\ UNCHANGED creatable

UserDeletesPlatform(p) ==
  /\ platform[p].exists /\ Fault("delete")
  /\ PutPlatform(p, NoPlatform)
  /\ UNCHANGED creatable

UserCreatesClusterPlatform(c) ==
  /\ c \in creatable
  /\ ~cplatform[c].exists /\ faults = 0
  /\ \E p \in Platforms \cap creatable :
       PutClusterPlatform(c, [NoClusterPlatform EXCEPT !.exists = TRUE, !.to = p])
  /\ UNCHANGED <<userVars, faults>>

UserDeletesClusterPlatform(c) ==
  /\ cplatform[c].exists /\ Fault("delete")
  /\ PutClusterPlatform(c, NoClusterPlatform)
  /\ UNCHANGED userVars
=============================================================================
