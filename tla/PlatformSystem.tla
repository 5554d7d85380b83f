--------------------------- MODULE PlatformSystem ---------------------------
(***************************************************************************)
(* The platform and the cluster platform controller of one operator, the   *)
(* callers of GetActivePlatform, the warmer pods and the user, composed.   *)
(***************************************************************************)
EXTENDS Platform, ClusterPlatform

systemVars == <<objectVars, userVars, faults, platformVars, ck>>

SystemInit == ObjectsInit /\ PlatformInit /\ ck = IdleClusterPlatform

Deliver(o) ==
  /\ \/ o \in Platforms /\ DeliverPlatform(o)
     \/ o \in ClusterPlatforms /\ DeliverClusterPlatform(o)
  /\ UNCHANGED <<userVars, faults, platformVars, ck>>

\* The operator crashes and starts again with caches listed anew.
PlatformCrash ==
  /\ Fault("crash")
  /\ pk' = IdlePlatform /\ ck' = IdleClusterPlatform /\ gk' = "idle"
  /\ seen' = platform /\ cseen' = cplatform /\ behind' = {}
  /\ queued' = {p \in Platforms : platform[p].exists} \cup {c \in ClusterPlatforms : cplatform[c].exists}
  /\ UNCHANGED <<platform, cplatform, userVars, warmer, stale>>

SystemNext ==
  \/ PlatformController /\ UNCHANGED ck
  \/ ClusterPlatformController /\ UNCHANGED platformVars
  \/ OtherControllers /\ UNCHANGED ck
  \/ Warmers /\ UNCHANGED ck
  \/ User /\ UNCHANGED ck
  \/ \E o \in Platforms \cup ClusterPlatforms : Deliver(o)
  \/ PlatformCrash

SystemSpec == SystemInit /\ [][SystemNext]_systemVars

\* The controllers take the requests of their queues, watches deliver and
\* warmer pods end.  A workflow that needs a platform, the user and the faults
\* are not fair.
PlatformSteady == pk.pc # "idle" /\ UNCHANGED ck /\ PlatformController

FairSystemSpec ==
  /\ SystemSpec
  /\ \A p \in Platforms : SF_systemVars(UNCHANGED ck /\ PlatformStart(p))
  /\ \A c \in ClusterPlatforms : SF_systemVars(UNCHANGED platformVars /\ ClusterStart(c))
  /\ WF_systemVars(PlatformSteady)
  /\ WF_systemVars(ck.pc # "idle" /\ UNCHANGED platformVars /\ ClusterPlatformController)
  /\ \A o \in Lagging : WF_systemVars(Deliver(o))
  /\ WF_systemVars(gk # "idle" /\ UNCHANGED ck /\ OtherControllers)
  /\ \A p \in Platforms :
       WF_systemVars(UNCHANGED ck /\ (WarmerFinishes(p) \/ WarmerGone(p)))

-----------------------------------------------------------------------------
(* Properties.                                                             *)

\* Every variable keeps its type.
PlatformTypeOK ==
  /\ platform \in [Platforms -> Platform] /\ seen \in [Platforms -> Platform]
  /\ cplatform \in [ClusterPlatforms -> ClusterPlatform]
  /\ cseen \in [ClusterPlatforms -> ClusterPlatform]
  /\ behind \subseteq Lagging
  /\ queued \subseteq Platforms \cup ClusterPlatforms
  /\ faults \in 0..MaxFaults
  /\ pk \in PlatformRequest /\ gk \in GetSteps /\ ck \in ClusterPlatformRequest
  /\ warmer \in [Platforms -> WarmerStates] /\ stale \in BOOLEAN
  /\ creatable \in Scenarios

\* A platform that has been taken into use: it is being set up or is ready.
InUse(p) == platform[p].exists /\ ~IsUnknown(platform[p].cond) /\ ~IsDuplicated(platform[p])

\* Of the primary platforms of a namespace only one is active
\* (platform.go, listPrimaryPlatforms), in whatever order they are created,
\* deleted and looked at, as long as no decision was made on a cached list
\* that was out of date.
OnlyOneActive ==
  stale \/ \A p, q \in Primary(Platforms) : InUse(p) /\ InUse(q) => p = q

\* The warmer pod of a platform is lost: warmAction fails from then on.
StuckWarming(p) == platform[p].cond = Cond("False", "Warming") /\ warmer[p] \in {"none", "Failed"}

\* In the end nobody calls GetActivePlatform: as long as no platform is
\* active every call sets the default platform back to its beginning.
CallsEnd == <>[](gk = "idle")

\* As long as there is a platform for the namespace, one comes into use and
\* stays so, unless its warmer pod was lost, which the operator never
\* repairs (warm.go).
OneBecomesActive ==
  CallsEnd => <>[](\/ \A p \in Primary(Platforms) : ~platform[p].exists
                   \/ \E p \in Primary(Platforms) : platform[p].exists /\ (IsReady(platform[p]) \/ StuckWarming(p)))

\* A cluster platform that is not a duplicate reports whether the platform
\* it refers to is ready, and one of them is not a duplicate.
ClusterPlatformsFollow ==
  /\ \A c \in ClusterPlatforms :
       cplatform[c].exists /\ ~IsDuplicated(cplatform[c]) =>
         LET o == platform[cplatform[c].to]
         IN IsReady(cplatform[c]) <=> o.exists /\ IsReady(o)
  /\ (\E c \in ClusterPlatforms : cplatform[c].exists) =>
       \E c \in ClusterPlatforms : cplatform[c].exists /\ ~IsDuplicated(cplatform[c])

\* A platform that is ready points at the active cluster platform, or at
\* none when there is none.
RefsAgree ==
  \A p \in Platforms :
    platform[p].exists /\ IsReady(platform[p]) =>
      platform[p].ref \in ActiveClusterPlatforms(cplatform)

\* The two controllers wake each other often enough for the cluster
\* platforms and the platforms to end up agreeing, without the resync of the
\* informers every ten hours.
ControllersAgree == CallsEnd => <>[](ClusterPlatformsFollow /\ RefsAgree)
=============================================================================
