----------------------------- MODULE DevProfile -----------------------------
(***************************************************************************)
(* One SonataFlow in the dev profile: no image is built, the definition is *)
(* mounted into a development image and the operator keeps the Deployment  *)
(* going.  The workflow reconciler tries three states in order:            *)
(* ensureRunningWorkflowState, followWorkflowDeploymentState and           *)
(* recoverFromFailureState, which rolls a failed Deployment out a limited  *)
(* number of times.                                                        *)
(*                                                                         *)
(* The reconciler reads the workflow from an informer cache, is woken by   *)
(* watch events and by the delays its results ask for, and writes the      *)
(* status under optimistic concurrency.  Time is counted in whole minutes; *)
(* a request is handled within a minute, so a reading taken n minutes      *)
(* after an event sees slightly more than n.                               *)
(***************************************************************************)
EXTENDS Conditions, Naturals

CONSTANTS
  Retries,       \* RecoverDeploymentErrorRetries
  Interval,      \* RecoverDeploymentErrorInterval, in minutes
  AfterFailure,  \* RequeueAfterFailure, in minutes
  AfterRunning,  \* RequeueAfterIsRunning, in minutes
  MaxFaults,     \* how many faults the environment injects (bound)
  FaultKinds,    \* which faults it may inject, out of AllFaults
  CacheLag       \* TRUE: the informer cache may lag behind the server

AllFaults == {"api", "crash", "deployment", "external"}

ASSUME DevAssumption ==
  /\ Retries \in Nat \ {0}
  /\ AfterRunning \in Nat \ {0}
  /\ AfterFailure \in Nat /\ AfterRunning <= AfterFailure
  /\ Interval \in Nat /\ AfterFailure <= Interval
  /\ MaxFaults \in Nat
  /\ FaultKinds \subseteq AllFaults
  /\ CacheLag \in BOOLEAN

VARIABLES
  wf,        \* the status of the workflow on the API server
  cache,     \* the status in the informer cache
  fresh,     \* the cached workflow has the server's resource version
  wk,        \* the workflow reconciler
  queued,    \* the workflow is in the work queue
  timer,     \* minutes until the delayed request, or NoTimer
  external,  \* the ConfigMaps that .spec.resources refers to exist
  deploy,    \* health of the Deployment, "absent" when there is none
  rollouts,  \* rollouts since the attempts were last persisted as zero
  faults     \* faults injected so far

serverVars == <<wf, cache, fresh>>
clusterVars == <<external, deploy>>
vars == <<serverVars, wk, queued, timer, clusterVars, rollouts, faults>>

-----------------------------------------------------------------------------
(* The objects.                                                            *)

NoTimer == Interval + 1

\* Minutes since LastTimeRecoverAttempt, counted up to Interval; Never is
\* the zero time.
Never == Interval + 1

DevReasons == {"", "WaitingForDeployment", "ExternalResourcesNotFound",
               "DeploymentFailure", "DeploymentUnavailable", "RedeploymentExhausted"}

DevConditions ==
  [{"Running", "Built"} -> [status : {"nil", "True", "False", "Unknown"}, reason : DevReasons]]

\* The status: conditions, RecoverFailureAttempts, LastTimeRecoverAttempt
\* and whether Endpoint and Address are set.
Status == [conds : DevConditions, attempts : 0..Retries, last : 0..Never, endpoint : BOOLEAN]

NewStatus == [conds |-> [t \in {"Running", "Built"} |-> NilCond],
              attempts |-> 0, last |-> Never, endpoint |-> FALSE]

Healths == {"absent", "progressing", "available", "failed", "unavailable"}

DevSteps == {"idle", "ensure", "external", "deployment", "follow", "followUpdate",
             "post", "enriched", "recover", "finish"}

Request == [pc : DevSteps, status : Status, fresh : BOOLEAN, after : 0..Interval]

Idle == [pc |-> "idle", status |-> NewStatus, fresh |-> FALSE, after |-> 0]

\* The status, the request and the counters keep their types; the attempts
\* never exceed the limit.
DevTypeOK ==
  /\ wf \in Status /\ cache \in Status /\ fresh \in BOOLEAN
  /\ wk \in Request
  /\ queued \in BOOLEAN
  /\ timer \in 0..NoTimer
  /\ external \in BOOLEAN
  /\ deploy \in Healths
  /\ rollouts \in 0..(Retries + 1)
  /\ faults \in 0..MaxFaults

Init ==
  /\ wf = NewStatus /\ cache = NewStatus /\ fresh = TRUE
  /\ wk = Idle
  /\ queued = TRUE
  /\ timer = NoTimer
  /\ external = TRUE
  /\ deploy = "absent"
  /\ rollouts = 0
  /\ faults = 0

-----------------------------------------------------------------------------
(* The work queue and the API server.                                      *)

\* Without lag every watch event is handled before anything else happens.
Watched == CacheLag \/ fresh

Fault(kind) ==
  /\ kind \in FaultKinds
  /\ faults < MaxFaults
  /\ faults' = faults + 1

\* The handler returns; of two delayed requests the earlier one is kept.
Return(after) ==
  /\ wk' = Idle
  /\ timer' = IF after < timer THEN after ELSE timer
  /\ UNCHANGED queued

\* The handler returns an error: the request is tried again.
ReturnErr ==
  /\ wk' = Idle
  /\ queued' = TRUE
  /\ UNCHANGED timer

\* Go on to the handler's PerformStatusUpdate with the given status.
FinishWith(pc, status, after) ==
  wk' = [wk EXCEPT !.pc = pc, !.status = status, !.after = after]

Marked(reason) == [wk.status EXCEPT !.conds = MarkFalse(@, "Running", reason)]

\* PerformStatusUpdate goes through: the copy still has the server's
\* resource version.
StatusWritten ==
  /\ wk.fresh
  /\ wf' = wk.status
  /\ fresh' = (fresh /\ wk.status = wf)
  /\ rollouts' = IF wk.status.attempts = 0 THEN 0 ELSE rollouts
  /\ UNCHANGED <<cache, faults>>

\* PerformStatusUpdate fails: a conflict, a refused request or no platform.
StatusRefused ==
  /\ (~wk.fresh /\ UNCHANGED faults) \/ (wk.fresh /\ Fault("api"))
  /\ UNCHANGED <<serverVars, rollouts>>

-----------------------------------------------------------------------------
(* The workflow reconciler.                                                *)

EnsureCanReconcile(running) ==
  \/ IsTrue(running)
  \/ IsUnknown(running)
  \/ running = Cond("False", "ExternalResourcesNotFound")

FollowCanReconcile(running) == running = Cond("False", "WaitingForDeployment")

\* ReconciliationStateMachine.do; recoverFromFailureState takes whatever
\* else is False.
DevDispatch(running) ==
  IF EnsureCanReconcile(running) THEN "ensure"
  ELSE IF FollowCanReconcile(running) THEN "follow"
  ELSE "recover"

WfStart ==
  /\ Watched
  /\ wk.pc = "idle"
  /\ queued
  /\ LET conds == InitializeConditions(cache.conds, "Running", {"Built"})
     IN wk' = [pc |-> DevDispatch(conds["Running"]), status |-> [cache EXCEPT !.conds = conds],
               fresh |-> fresh, after |-> 0]
  /\ queued' = FALSE
  /\ UNCHANGED <<serverVars, timer, clusterVars, rollouts, faults>>

\* ensureRunningWorkflowState: the definition and properties ConfigMaps and
\* the active platform.
EnsureConfigMaps ==
  /\ Watched
  /\ wk.pc = "ensure"
  /\ \/ /\ wk' = [wk EXCEPT !.pc = "external"]
        /\ UNCHANGED <<queued, timer, faults>>
     \/ /\ Fault("api")
        /\ ReturnErr
  /\ UNCHANGED <<serverVars, clusterVars, rollouts>>

\* ensureRunningWorkflowState: the ConfigMaps the workflow refers to.
FetchExternalResources ==
  /\ Watched
  /\ wk.pc = "external"
  /\ \/ /\ external
        /\ wk' = [wk EXCEPT !.pc = "deployment"]
        /\ UNCHANGED faults
     \/ /\ (~external /\ UNCHANGED faults) \/ Fault("external")
        /\ FinishWith("finish", Marked("ExternalResourcesNotFound"), AfterFailure)
  /\ UNCHANGED <<serverVars, queued, timer, clusterVars, rollouts>>

\* ensureRunningWorkflowState: what it makes of the Deployment it ensured.
EnsuredRunning(health) ==
  IF IsUnknown(wk.status.conds["Running"])
  THEN FinishWith("finish", Marked("WaitingForDeployment"), AfterRunning) /\ UNCHANGED timer
  ELSE IF health # "available"
  THEN FinishWith("finish", Marked("DeploymentUnavailable"), AfterRunning) /\ UNCHANGED timer
  ELSE wk' = Idle /\ timer' = IF AfterRunning < timer THEN AfterRunning ELSE timer

\* ensureRunningWorkflowState: Deployment, Service, monitor and route; a
\* later object may fail after the Deployment was created.
EnsureDeployment ==
  /\ Watched
  /\ wk.pc = "deployment"
  /\ deploy' \in {deploy, IF deploy = "absent" THEN "progressing" ELSE deploy}
  /\ \/ /\ deploy' # "absent"
        /\ EnsuredRunning(deploy')
        /\ queued' = (queued \/ deploy' # deploy)
        /\ UNCHANGED faults
     \/ /\ Fault("api")
        /\ ReturnErr
  /\ UNCHANGED <<serverVars, external, rollouts>>

\* SyncDeploymentStatus: the conditions for a Deployment of that health.
\* Unavailable pods whose troubleshooting finds no message are waited for.
SyncedStatus(health) ==
  CASE health = "absent" -> {Marked("DeploymentUnavailable")}
    [] health = "available" -> {[wk.status EXCEPT !.conds = MarkTrue(@, "Running")]}
    [] health = "failed" -> {[Marked("DeploymentFailure") EXCEPT !.last = 0]}
    [] health = "unavailable" -> {Marked("DeploymentUnavailable"), Marked("WaitingForDeployment")}
    [] OTHER -> {Marked("WaitingForDeployment")}

SyncedAfter(status) ==
  IF IsTrue(status.conds["Running"]) THEN AfterRunning
  ELSE IF FollowCanReconcile(status.conds["Running"]) THEN 0
  ELSE AfterFailure

\* followWorkflowDeploymentState: SyncDeploymentStatus.
FollowDeployment ==
  /\ Watched
  /\ wk.pc = "follow"
  /\ \/ /\ \E status \in SyncedStatus(deploy) :
             FinishWith("followUpdate", status, SyncedAfter(status))
        /\ UNCHANGED <<queued, timer, faults>>
     \/ /\ Fault("api")
        /\ ReturnErr
  /\ UNCHANGED <<serverVars, clusterVars, rollouts>>

FollowUpdate ==
  /\ Watched
  /\ wk.pc = "followUpdate"
  /\ \/ /\ StatusWritten
        /\ wk' = [wk EXCEPT !.pc = "post"]
        /\ UNCHANGED <<queued, timer>>
     \/ /\ StatusRefused
        /\ ReturnErr
  /\ UNCHANGED clusterVars

\* followWorkflowDeploymentState.PostReconcile: the network information of
\* an available Deployment goes to the status.
FollowPost ==
  /\ Watched
  /\ wk.pc = "post"
  /\ \/ /\ deploy = "available"
        /\ FinishWith("enriched", [wk.status EXCEPT !.endpoint = TRUE], wk.after)
        /\ UNCHANGED <<queued, timer, faults>>
     \/ /\ deploy \notin {"absent", "available"}
        /\ Return(wk.after)
        /\ UNCHANGED faults
     \/ /\ (deploy = "absent" /\ UNCHANGED faults) \/ Fault("api")
        /\ ReturnErr
  /\ UNCHANGED <<serverVars, clusterVars, rollouts>>

\* Seeded fault: one rollout more than the limit.
Exhausted_OneMore(status) == status.attempts > Retries

\* The attempts to recover are used up.
Exhausted(status) == status.attempts >= Retries

\* The guard on the recover interval, as the code has it.
IntervalGuard(status) == status.last # Never /\ status.last >= Interval

\* Without a Deployment the conditions start over.
Reset(status) ==
  [status EXCEPT !.conds = MarkUnknown(@, "Running", {"Built"}, "Running", ""), !.attempts = 0]

\* Seeded fault: the attempts are reset, the condition is not.
Recovered_StillFalse(status) == [status EXCEPT !.attempts = 0]

\* With an available one the workflow runs again.
Recovered(status) == [status EXCEPT !.conds = MarkTrue(@, "Running"), !.attempts = 0]

\* Seeded fault: a rollout that failed counts as an attempt.
RolloutErr_Counted ==
  /\ Fault("api")
  /\ FinishWith("finish", [wk.status EXCEPT !.attempts = @ + 1, !.last = 0], Interval)
  /\ UNCHANGED <<queued, timer, rollouts>>

\* A rollout that cannot be written, all retries of the same copy included,
\* waits for the next interval.
RolloutErr == Fault("api") /\ Return(Interval) /\ UNCHANGED rollouts

\* The rollout is written, which the workflow is woken for, and counted.
Rollout ==
  /\ FinishWith("finish", [wk.status EXCEPT !.attempts = @ + 1, !.last = 0], Interval)
  /\ rollouts' = IF rollouts > Retries THEN rollouts ELSE rollouts + 1
  /\ queued' = TRUE
  /\ UNCHANGED <<timer, faults>>

\* recoverFromFailureState.
RecoverNoRollout ==
  /\ \/ deploy = "absent" /\ FinishWith("finish", Reset(wk.status), AfterFailure)
     \/ deploy = "available" /\ FinishWith("finish", Recovered(wk.status), AfterFailure)
     \/ /\ deploy \notin {"absent", "available"}
        /\ Exhausted(wk.status)
        /\ FinishWith("finish", Marked("RedeploymentExhausted"), Interval)
  /\ UNCHANGED <<queued, timer, rollouts, faults>>

RecoverRollout ==
  /\ deploy \notin {"absent", "available"}
  /\ ~Exhausted(wk.status)
  /\ \/ IntervalGuard(wk.status) /\ Return(Interval) /\ UNCHANGED <<rollouts, faults>>
     \/ ~IntervalGuard(wk.status) /\ (Rollout \/ RolloutErr)

RecoverFromFailure ==
  /\ Watched
  /\ wk.pc = "recover"
  /\ \/ RecoverNoRollout
     \/ RecoverRollout
     \/ Fault("api") /\ ReturnErr /\ UNCHANGED rollouts
  /\ UNCHANGED <<serverVars, clusterVars>>

\* The last PerformStatusUpdate of a handler.
WfFinish ==
  /\ Watched
  /\ wk.pc \in {"finish", "enriched"}
  /\ \/ StatusWritten /\ Return(wk.after)
     \/ StatusRefused /\ ReturnErr
  /\ UNCHANGED clusterVars

-----------------------------------------------------------------------------
(* Events, time, the operator process and the environment.                 *)

Deliver ==
  /\ ~fresh
  /\ cache' = wf
  /\ fresh' = TRUE
  /\ queued' = TRUE
  /\ UNCHANGED <<wf, wk, timer, clusterVars, rollouts, faults>>

TimerFires ==
  /\ timer = 0
  /\ timer' = NoTimer
  /\ queued' = TRUE
  /\ UNCHANGED <<serverVars, wk, clusterVars, rollouts, faults>>

Aged(status) == [status EXCEPT !.last = IF @ < Interval THEN @ + 1 ELSE @]

\* A minute passes, in which whatever is due is done.
Tick ==
  /\ wk.pc = "idle" /\ ~queued /\ fresh
  /\ timer \in 1..Interval
  /\ timer' = timer - 1
  /\ wf' = Aged(wf) /\ cache' = Aged(wf)
  /\ UNCHANGED <<fresh, wk, queued, clusterVars, rollouts, faults>>

\* The operator crashes and is started again, at once or after a long time.
OperatorRestart ==
  /\ Fault("crash")
  /\ wk' = Idle
  /\ \E status \in {wf, [wf EXCEPT !.last = IF @ = Never THEN Never ELSE Interval]} :
       wf' = status /\ cache' = status
  /\ fresh' = TRUE
  /\ queued' = TRUE
  /\ timer' = NoTimer
  /\ UNCHANGED <<clusterVars, rollouts>>

DeploymentAvailable ==
  /\ Watched
  /\ deploy \notin {"absent", "available"}
  /\ deploy' = "available"
  /\ queued' = TRUE
  /\ UNCHANGED <<serverVars, wk, timer, external, rollouts, faults>>

DeploymentFails ==
  /\ Watched
  /\ deploy # "absent"
  /\ Fault("deployment")
  /\ deploy' \in {"absent", "failed", "unavailable"}
  /\ queued' = TRUE
  /\ UNCHANGED <<serverVars, wk, timer, external, rollouts>>

\* The ConfigMaps belong to the user: the workflow is not woken for them.
ExternalDeleted ==
  /\ Watched
  /\ external
  /\ Fault("external")
  /\ external' = FALSE
  /\ UNCHANGED <<serverVars, wk, queued, timer, deploy, rollouts>>

ExternalCreated ==
  /\ Watched
  /\ ~external
  /\ external' = TRUE
  /\ UNCHANGED <<serverVars, wk, queued, timer, deploy, rollouts, faults>>

-----------------------------------------------------------------------------
(* The specification.                                                      *)

Reconciler ==
  \/ WfStart \/ EnsureConfigMaps \/ FetchExternalResources \/ EnsureDeployment
  \/ FollowDeployment \/ FollowUpdate \/ FollowPost \/ RecoverFromFailure \/ WfFinish

Environment ==
  \/ Deliver \/ TimerFires \/ Tick \/ OperatorRestart
  \/ DeploymentAvailable \/ DeploymentFails \/ ExternalDeleted \/ ExternalCreated

Next == Reconciler \/ Environment

Spec == Init /\ [][Next]_vars

\* The worker takes requests, watches deliver and time passes; the user puts
\* the ConfigMaps back, and the pods of an ensured Deployment come up again.
Fairness ==
  /\ WF_vars(Reconciler)
  /\ WF_vars(Deliver)
  /\ WF_vars(TimerFires)
  /\ WF_vars(Tick)
  /\ WF_vars(ExternalCreated)

FairSpec == Spec /\ Fairness /\ SF_vars(DeploymentAvailable)

-----------------------------------------------------------------------------
(* Properties.                                                             *)

\* Every attempt the status counts was a rollout that went through, and the
\* operator gives up only after Retries of them: whatever conflicts, crashes
\* or stale copies come between a rollout and the status update.
GivesUpOnlyAfterTrying ==
  /\ wf.attempts <= rollouts
  /\ wf.conds["Running"].reason = "RedeploymentExhausted" => rollouts >= Retries

\* Once the faults stop the workflow is reported as running for good, also
\* when the operator had given up on its Deployment before.  The code
\* leaves out one case: a workflow whose external ConfigMaps were missing for a
\* while is never marked as running again (ensureRunningWorkflowState.Do).
DevConverges ==
  <>[](IsTrue(wf.conds["Running"]) \/ wf.conds["Running"].reason = "ExternalResourcesNotFound")
=============================================================================
