------------------------------ MODULE Platform ------------------------------
(***************************************************************************)
(* The SonataFlowPlatform controller over the platforms of one namespace.  *)
(* A request reads the platform from the server, finds the one action that *)
(* can handle it and writes spec and status back with SafeUpdatePlatform   *)
(* and SafeUpdatePlatformStatus, which put the whole of either over what   *)
(* the server has.  Meanwhile the controllers of workflows and builds call *)
(* GetActivePlatform, which creates a default platform, or writes one over *)
(* a platform of that name, when the cache lists no active one.            *)
(*                                                                         *)
(* The objects of the service action (k8s.go) are in PlatformServices; the *)
(* images, registry and other data of the spec are left out.               *)
(***************************************************************************)
EXTENDS PlatformObjects

VARIABLES
  pk,       \* the request of the platform controller
  gk,       \* a call of GetActivePlatform by another controller
  warmer,   \* the Kaniko cache warmer pods
  stale     \* history: a platform was initialised on a cached list that was
            \* no longer true

platformVars == <<pk, gk, warmer, stale>>

PlatformSteps == {"idle", "defaultsStatus", "defaultsSpec", "deletePod", "createPod",
                  "writeSpec", "writeStatus", "done"}

\* The platform a request works on: its name and the target.
PlatformRequest ==
  [pc : PlatformSteps, p : Platforms, spec : Versions, cond : SucceedCondition,
   ref : ClusterPlatforms \cup {"none"}]

IdlePlatform == [pc |-> "idle", p |-> Default, spec |-> 0, cond |-> NilCond, ref |-> "none"]

WarmerStates == {"none", "Running", "Succeeded", "Failed", "Terminating"}

GetSteps == {"idle", "create", "status", "spec"}

-----------------------------------------------------------------------------
(* Decisions.                                                              *)

\* The version of the operator's own platform enables the Kaniko cache.
IsKanikoCacheEnabled(p, spec) == spec = 0 \/ p \in WithCache

\* Seeded fault: a platform marked duplicated is not looked at again.
InitializeCanHandle_Once(t) == IsUnknown(t.cond)

InitializeCanHandle(t) == IsUnknown(t.cond) \/ IsDuplicated(t)

\* Seeded fault: only a platform that is ready counts as active.
DuplicateIn_Ready(list, p) ==
  /\ p \notin Secondary
  /\ \E q \in Primary(Platforms) \ {p} : list[q].exists /\ IsReady(list[q])

\* Another primary platform is active, as far as the cache knows.
DuplicateIn(list, p) ==
  /\ p \notin Secondary
  /\ \E q \in Primary(Platforms) \ {p} : list[q].exists /\ PlatformIsActive(list[q])

IsPrimaryDuplicate(p) == DuplicateIn(seen, p)

\* initializeAction, up to CreateOrUpdateWithDefaults: a platform that is
\* already marked duplicated is left alone.
Initialize(t) ==
  IF ~IsPrimaryDuplicate(t.p) THEN [t EXCEPT !.pc = "defaultsStatus"]
  ELSE IF IsDuplicated(t) THEN [t EXCEPT !.pc = "done"]
  ELSE [t EXCEPT !.pc = "writeSpec", !.cond = Duplicated]

\* serviceAction begins with CreateOrUpdateWithDefaults, too.
Service(t) == [t EXCEPT !.pc = "defaultsStatus"]

\* warmAction: errors of a pod that is gone or has failed are retried.
Warm(t) ==
  IF warmer[t.p] = "Succeeded"
  THEN [t EXCEPT !.pc = "writeSpec", !.cond = Cond("True", "Warming")]
  ELSE [t EXCEPT !.pc = "done"]

Create(t) == [t EXCEPT !.pc = "writeSpec", !.cond = Cond("True", "")]

\* The first action that can handle the target; the monitor action never
\* comes to be first.
Action(t) ==
  CASE InitializeCanHandle(t)          -> Initialize(t)
    [] IsReady(t)                      -> Service(t)
    [] t.cond = Cond("False", "Warming")  -> Warm(t)
    [] t.cond = Cond("False", "Creating") -> Create(t)
    [] OTHER                           -> [t EXCEPT !.pc = "done"]

\* What follows CreateOrUpdateWithDefaults in the two actions.
AfterDefaults(t) ==
  IF IsReady(t) THEN [t EXCEPT !.pc = "writeSpec"]
  ELSE IF ~OpenShift /\ IsKanikoCacheEnabled(t.p, t.spec) THEN [t EXCEPT !.pc = "deletePod"]
  ELSE [t EXCEPT !.pc = "writeSpec", !.cond = Cond("False", "Creating")]

-----------------------------------------------------------------------------
(* Writing a platform back.                                                *)

\* SafeUpdatePlatform and SafeUpdatePlatformStatus read the cached object,
\* replace its spec or status and update it; a conflict is retried a few
\* times, and is an error when the cache does not catch up.
CanWrite(p) == seen[p].exists /\ p \notin behind

SafeUpdatePlatform(p, spec) ==
  CanWrite(p) /\ PutPlatform(p, [platform[p] EXCEPT !.spec = spec])

SafeUpdatePlatformStatus(p, cond, ref) ==
  CanWrite(p) /\ PutPlatform(p, [platform[p] EXCEPT !.cond = cond, !.ref = ref])

-----------------------------------------------------------------------------
(* A request of the platform controller.                                   *)

PlatformStart(p) ==
  /\ pk.pc = "idle" /\ p \in queued
  /\ queued' = queued \ {p}
  /\ IF platform[p].exists
     THEN \E a \in ActiveClusterPlatforms(cseen) :
            pk' = Action([pc |-> "idle", p |-> p, spec |-> platform[p].spec,
                          cond |-> InitializedCond(platform[p].cond), ref |-> a])
     ELSE UNCHANGED pk
  /\ stale' = (stale \/ /\ platform[p].exists
                         /\ InitializeCanHandle([cond |-> InitializedCond(platform[p].cond)])
                         /\ IsPrimaryDuplicate(p) # DuplicateIn(platform, p))
  /\ UNCHANGED <<platform, seen, cplatform, cseen, behind, userVars, faults, gk, warmer>>

\* createPlatformIfNotExists writes the status, with the condition as it
\* was, and then the spec.
DefaultsStatus ==
  /\ pk.pc = "defaultsStatus"
  /\ SafeUpdatePlatformStatus(pk.p, pk.cond, pk.ref)
  /\ pk' = [pk EXCEPT !.pc = "defaultsSpec"]
  /\ UNCHANGED <<userVars, faults, gk, warmer, stale>>

DefaultsSpec ==
  /\ pk.pc = "defaultsSpec"
  /\ SafeUpdatePlatform(pk.p, pk.spec)
  /\ pk' = AfterDefaults(pk)
  /\ UNCHANGED <<userVars, faults, gk, warmer, stale>>

\* createKanikoCacheWarmerPod deletes the pod of an earlier attempt.
DeleteWarmerPod ==
  /\ pk.pc = "deletePod"
  /\ warmer' = [warmer EXCEPT ![pk.p] = IF @ = "none" THEN @ ELSE "Terminating"]
  /\ pk' = [pk EXCEPT !.pc = "createPod"]
  /\ UNCHANGED <<objectVars, userVars, faults, gk, stale>>

\* The pod that was deleted may still be terminating: then it already exists.
CreateWarmerPod ==
  /\ pk.pc = "createPod"
  /\ IF warmer[pk.p] = "none"
     THEN /\ warmer' = [warmer EXCEPT ![pk.p] = "Running"]
          /\ pk' = [pk EXCEPT !.pc = "writeSpec", !.cond = Cond("False", "Warming")]
     ELSE pk' = [pk EXCEPT !.pc = "done"] /\ UNCHANGED warmer
  /\ UNCHANGED <<objectVars, userVars, faults, gk, stale>>

WriteSpec ==
  /\ pk.pc = "writeSpec"
  /\ SafeUpdatePlatform(pk.p, pk.spec)
  /\ pk' = [pk EXCEPT !.pc = "writeStatus"]
  /\ UNCHANGED <<userVars, faults, gk, warmer, stale>>

WriteStatus ==
  /\ pk.pc = "writeStatus"
  /\ SafeUpdatePlatformStatus(pk.p, pk.cond, pk.ref)
  /\ pk' = [pk EXCEPT !.pc = "done"]
  /\ UNCHANGED <<userVars, faults, gk, warmer, stale>>

\* A write that conflicts for good, or whose object is gone; or a request
\* the server refuses.  The error has the request queued again.
PlatformError ==
  /\ pk.pc \notin {"idle", "done"}
  /\ \/ /\ pk.pc \in {"defaultsStatus", "defaultsSpec", "writeSpec", "writeStatus"}
        /\ ~CanWrite(pk.p)
        /\ UNCHANGED faults
     \/ Fault("api")
  /\ queued' = queued \cup {pk.p}
  /\ pk' = IdlePlatform
  /\ UNCHANGED <<platform, seen, cplatform, cseen, behind, userVars, gk, warmer, stale>>

\* The request is over: only a platform that is ready is not queued again
\* in five seconds.
PlatformDone ==
  /\ pk.pc = "done"
  /\ queued' = IF IsReady(pk) THEN queued ELSE queued \cup {pk.p}
  /\ pk' = IdlePlatform
  /\ UNCHANGED <<platform, seen, cplatform, cseen, behind, userVars, faults, gk, warmer, stale>>

PlatformController ==
  \/ \E p \in Platforms : PlatformStart(p)
  \/ DefaultsStatus \/ DefaultsSpec \/ DeleteWarmerPod \/ CreateWarmerPod
  \/ WriteSpec \/ WriteStatus \/ PlatformError \/ PlatformDone

-----------------------------------------------------------------------------
(* GetActivePlatform, called for a workflow or a build.                    *)

\* No primary platform in the cache is active: the default one is created,
\* or written over the platform that has its name.
GetActivePlatform ==
  /\ gk = "idle"
  /\ \A p \in Primary(Platforms) : seen[p].exists => ~PlatformIsActive(seen[p])
  /\ gk' = IF seen[Default].exists THEN "status" ELSE "create"
  /\ UNCHANGED <<objectVars, userVars, faults, pk, warmer, stale>>

\* The user may have created the platform in the meantime.
CreateDefault ==
  /\ gk = "create"
  /\ gk' = "idle"
  /\ IF platform[Default].exists THEN UNCHANGED objectVars
     ELSE PutPlatform(Default, [NoPlatform EXCEPT !.exists = TRUE])
  /\ UNCHANGED <<userVars, faults, pk, warmer, stale>>

OverwriteDefaultStatus ==
  /\ gk = "status"
  /\ SafeUpdatePlatformStatus(Default, NilCond, "none")
  /\ gk' = "spec"
  /\ UNCHANGED <<userVars, faults, pk, warmer, stale>>

OverwriteDefaultSpec ==
  /\ gk = "spec"
  /\ SafeUpdatePlatform(Default, 0)
  /\ gk' = "idle"
  /\ UNCHANGED <<userVars, faults, pk, warmer, stale>>

GetActivePlatformError ==
  /\ gk # "idle"
  /\ \/ gk \in {"status", "spec"} /\ ~CanWrite(Default) /\ UNCHANGED faults
     \/ Fault("api")
  /\ gk' = "idle"
  /\ UNCHANGED <<objectVars, userVars, pk, warmer, stale>>

OtherControllers ==
  \/ GetActivePlatform \/ CreateDefault
  \/ OverwriteDefaultStatus \/ OverwriteDefaultSpec \/ GetActivePlatformError

-----------------------------------------------------------------------------
(* The warmer pod and the user.                                            *)

WarmerFinishes(p) ==
  /\ warmer[p] = "Running"
  /\ warmer' = [warmer EXCEPT ![p] = "Succeeded"]
  /\ UNCHANGED <<objectVars, userVars, faults, pk, gk, stale>>

\* The pod fails, or somebody deletes it before the controller has seen it
\* succeed.
WarmerLost(p) ==
  /\ warmer[p] = "Running" /\ Fault("warmer")
  /\ \E s \in {"Failed", "Terminating"} : warmer' = [warmer EXCEPT ![p] = s]
  /\ UNCHANGED <<objectVars, userVars, pk, gk, stale>>

WarmerGone(p) ==
  /\ warmer[p] = "Terminating"
  /\ warmer' = [warmer EXCEPT ![p] = "none"]
  /\ UNCHANGED <<objectVars, userVars, faults, pk, gk, stale>>

Warmers == \E p \in Platforms : WarmerFinishes(p) \/ WarmerLost(p) \/ WarmerGone(p)

User ==
  /\ \/ \E p \in Platforms : UserCreatesPlatform(p) \/ UserEditsPlatform(p) \/ UserDeletesPlatform(p)
     \/ \E c \in ClusterPlatforms : UserCreatesClusterPlatform(c) \/ UserDeletesClusterPlatform(c)
  /\ UNCHANGED platformVars

PlatformInit ==
  /\ pk = IdlePlatform /\ gk = "idle"
  /\ warmer = [p \in Platforms |-> "none"]
  /\ stale = FALSE
=============================================================================
