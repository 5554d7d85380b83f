------------------------------ MODULE DevProofs ------------------------------
(***************************************************************************)
(* Proofs about DevProfile, for every number of retries, every interval    *)
(* and every set of faults, with and without cache lag.                    *)
(***************************************************************************)
EXTENDS DevProfile, TLAPS

\* A status that says the operator gave up has used all its attempts.
GoodStatus ==
  {s \in Status : s.conds["Running"].reason = "RedeploymentExhausted" => s.attempts = Retries}

\* The inductive invariant: every copy of the status is good, a fresh copy
\* is the server's, and no status that can still be written counts more
\* attempts than there were rollouts.
DevInv ==
  /\ DevTypeOK
  /\ wf \in GoodStatus /\ cache \in GoodStatus /\ wk.status \in GoodStatus
  /\ fresh => cache = wf
  /\ wf.attempts <= rollouts
  /\ wk.fresh => wk.status.attempts <= rollouts

-----------------------------------------------------------------------------
(* The values a step builds.                                               *)

\* Setting the running condition to anything but "gave up" keeps the map of
\* conditions and leaves a reason other than "gave up".
LEMMA SetRunning ==
  ASSUME NEW c \in DevConditions, NEW st \in {"True", "False", "Unknown"}, NEW r \in DevReasons
  PROVE  /\ SetCondition(c, "Running", Cond(st, r)) \in DevConditions
         /\ SetCondition(c, "Running", Cond(st, r))["Running"].reason = r
BY DEF SetCondition, Cond, DevConditions

\* The condition operations of the handlers keep the map of conditions.
LEMMA MarkedConds ==
  ASSUME NEW c \in DevConditions, NEW r \in DevReasons
  PROVE  /\ MarkFalse(c, "Running", r) \in DevConditions
         /\ MarkFalse(c, "Running", r)["Running"].reason = r
         /\ MarkTrue(c, "Running") \in DevConditions
         /\ MarkTrue(c, "Running")["Running"].reason = ""
         /\ MarkUnknown(c, "Running", {"Built"}, "Running", "") \in DevConditions
         /\ MarkUnknown(c, "Running", {"Built"}, "Running", "")["Running"].reason = ""
<1>1. "" \in DevReasons
  BY DEF DevReasons
<1>2. MarkFalse(c, "Running", r) \in DevConditions /\ MarkFalse(c, "Running", r)["Running"].reason = r
  BY SetRunning DEF MarkFalse
<1>3. MarkTrue(c, "Running") \in DevConditions /\ MarkTrue(c, "Running")["Running"].reason = ""
  BY <1>1, SetRunning DEF MarkTrue
<1>4. /\ MarkUnknown(c, "Running", {"Built"}, "Running", "") \in DevConditions
      /\ MarkUnknown(c, "Running", {"Built"}, "Running", "")["Running"].reason = ""
  <2>. DEFINE m == SetCondition(c, "Running", Cond("Unknown", ""))
  <2>1. m \in DevConditions /\ m["Running"].reason = ""
    BY <1>1, SetRunning
  <2>2. MarkFalse(m, "Running", "") \in DevConditions /\ MarkFalse(m, "Running", "")["Running"].reason = ""
    BY <1>1, <2>1, SetRunning DEF MarkFalse
  <2>3. "Running" \notin {"Built"}
    OBVIOUS
  <2>. HIDE DEF m
  <2>4. MarkUnknown(c, "Running", {"Built"}, "Running", "") \in {m, MarkFalse(m, "Running", "")}
    BY <2>3 DEF MarkUnknown, m
  <2>. QED
    BY <2>1, <2>2, <2>4
<1>. QED
  BY <1>2, <1>3, <1>4

\* Initializing the conditions gives no reason that was not there.
LEMMA InitializedConds ==
  ASSUME NEW c \in DevConditions
  PROVE  /\ InitializeConditions(c, "Running", {"Built"}) \in DevConditions
         /\ InitializeConditions(c, "Running", {"Built"})["Running"].reason
              \in {"", c["Running"].reason}
<1>1. DOMAIN c = {"Running", "Built"}
  BY DEF DevConditions
<1>2. "" \in DevReasons
  BY DEF DevReasons
<1>. QED
  BY <1>1, <1>2 DEF InitializeConditions, DevConditions, Cond, NilCond

\* Zero is a number of attempts.
LEMMA ZeroAttempts == 0 \in 0..Retries
BY DevAssumption DEF DevAssumption

\* Starting over with new conditions leaves a good status without attempts.
LEMMA StartOver ==
  ASSUME NEW s \in GoodStatus, NEW c \in DevConditions, c["Running"].reason = ""
  PROVE  /\ [s EXCEPT !.conds = c, !.attempts = 0] \in GoodStatus
         /\ [s EXCEPT !.conds = c, !.attempts = 0].attempts = 0
<1>. DEFINE u == [s EXCEPT !.conds = c, !.attempts = 0]
<1>1. s \in Status
  BY DEF GoodStatus
<1>2. 0 \in 0..Retries
  BY ZeroAttempts
<1>3. u \in Status
  BY <1>1, <1>2 DEF Status
<1>4. u.attempts = 0 /\ u.conds = c
  BY <1>1 DEF Status
<1>. HIDE DEF u
<1>5. u \in GoodStatus
  BY <1>3, <1>4 DEF GoodStatus
<1>. QED
  BY <1>4, <1>5 DEF u

\* The constants are typed.
LEMMA DevConstants ==
  /\ NewStatus \in GoodStatus
  /\ Idle \in Request
  /\ Idle.status = NewStatus /\ Idle.fresh = FALSE
  /\ 0 \in 0..Never /\ Interval \in 0..Never
  /\ {0, AfterRunning, AfterFailure, Interval} \subseteq 0..Interval
<1>1. 0 \in 0..Never /\ Interval \in 0..Never /\ Never \in 0..Never /\ 0 \in 0..Retries
  BY DevAssumption DEF DevAssumption, Never
<1>2. {0, AfterRunning, AfterFailure, Interval} \subseteq 0..Interval
  BY DevAssumption DEF DevAssumption
<1>3. NewStatus \in GoodStatus
  BY <1>1 DEF NewStatus, NilCond, Cond, GoodStatus, Status, DevConditions, DevReasons
<1>4. Idle \in Request
  BY <1>2, <1>3 DEF Idle, Request, DevSteps, GoodStatus
<1>. QED
  BY <1>1, <1>2, <1>3, <1>4 DEF Idle

\* Marking the status of the request.
LEMMA MarkedGood ==
  ASSUME DevInv, NEW r \in DevReasons, r # "RedeploymentExhausted" \/ wk.status.attempts = Retries
  PROVE  Marked(r) \in GoodStatus /\ Marked(r).attempts = wk.status.attempts
<1>. DEFINE c == MarkFalse(wk.status.conds, "Running", r)
<1>1. wk.status \in Status
  BY DEF DevInv, GoodStatus
<1>2. c \in DevConditions /\ c["Running"].reason = r
  BY <1>1, MarkedConds DEF Status
<1>. HIDE DEF c
<1>3. [wk.status EXCEPT !.conds = c] \in GoodStatus
  BY <1>1, <1>2 DEF GoodStatus, Status
<1>. QED
  BY <1>1, <1>3 DEF Marked, c, Status

-----------------------------------------------------------------------------
(* Frames: what has to be shown of a step of the reconciler.               *)

\* The next state of the request, the queue and the budget after a handler
\* has gone on or has returned.
RequestOK ==
  /\ wk' \in Request
  /\ wk'.status \in GoodStatus
  /\ wk'.fresh => wk'.status.attempts <= rollouts'

\* A handler that has returned leaves no request.
LEMMA IdleOK ==
  ASSUME wk' = Idle
  PROVE  RequestOK
BY DevConstants DEF RequestOK

\* A handler may go on to a status update with a good status.
LEMMA FinishOK ==
  ASSUME DevInv, NEW pc \in DevSteps, NEW s \in GoodStatus, NEW after \in 0..Interval,
         FinishWith(pc, s, after), s.attempts <= rollouts' \/ s.attempts = wk.status.attempts,
         rollouts' = rollouts \/ s.attempts <= rollouts'
  PROVE  RequestOK
<1>1. wk \in Request
  BY DEF DevInv, DevTypeOK
<1>2. wk' = [wk EXCEPT !.pc = pc, !.status = s, !.after = after] /\ s \in Status
  BY DEF FinishWith, GoodStatus
<1>3. wk' \in Request /\ wk'.status = s /\ wk'.fresh = wk.fresh
  BY <1>1, <1>2 DEF Request
<1>4. wk'.fresh => wk'.status.attempts <= rollouts'
  BY <1>3 DEF DevInv
<1>. QED
  BY <1>3, <1>4 DEF RequestOK

\* Going on to another step keeps the status.
LEMMA StepOK ==
  ASSUME DevInv, NEW pc \in DevSteps, wk' = [wk EXCEPT !.pc = pc],
         wk.fresh => wk.status.attempts <= rollouts'
  PROVE  RequestOK
BY DEF RequestOK, DevInv, DevTypeOK, Request

\* A fault, or none, keeps within the budget.
LEMMA FaultOK ==
  ASSUME DevTypeOK, NEW kind, Fault(kind) \/ UNCHANGED faults
  PROVE  faults' \in 0..MaxFaults
BY DevAssumption DEF DevAssumption, DevTypeOK, Fault

\* A handler may return with a delay ...
LEMMA ReturnOK ==
  ASSUME DevTypeOK, NEW after \in 0..Interval, Return(after)
  PROVE  RequestOK /\ timer' \in 0..NoTimer /\ queued' \in BOOLEAN
<1>1. timer' \in 0..NoTimer
  BY DevAssumption DEF DevAssumption, Return, NoTimer, DevTypeOK
<1>. QED
  BY <1>1, IdleOK DEF Return, DevTypeOK

\* ... or with an error.
LEMMA ReturnErrOK ==
  ASSUME DevTypeOK, ReturnErr
  PROVE  RequestOK /\ timer' \in 0..NoTimer /\ queued' \in BOOLEAN
BY IdleOK DEF ReturnErr, DevTypeOK

\* A step that leaves the server alone keeps the invariant if it keeps the
\* request, the queue and the cluster typed.
LEMMA HandlerFrame ==
  ASSUME DevInv, UNCHANGED serverVars, RequestOK,
         queued' \in BOOLEAN, timer' \in 0..NoTimer, external' \in BOOLEAN, deploy' \in Healths,
         rollouts' \in 0..(Retries + 1), rollouts <= rollouts', faults' \in 0..MaxFaults
  PROVE  DevInv'
<1>1. DevTypeOK'
  BY DEF DevTypeOK, DevInv, serverVars, RequestOK
<1>2. (wf \in GoodStatus /\ cache \in GoodStatus /\ (fresh => cache = wf))'
  BY DEF DevInv, serverVars
<1>3. wf'.attempts <= rollouts'
  <2>1. wf.attempts \in Nat /\ rollouts \in Nat /\ rollouts' \in Nat /\ wf.attempts <= rollouts
    BY DevAssumption DEF DevInv, DevTypeOK, Status, DevAssumption
  <2>. QED
    BY <2>1 DEF serverVars
<1>. QED
  BY <1>1, <1>2, <1>3 DEF DevInv, RequestOK

\* A status update keeps what it writes good.
LEMMA WrittenOK ==
  ASSUME DevInv, StatusWritten
  PROVE  /\ wf' \in GoodStatus /\ cache' \in GoodStatus /\ fresh' \in BOOLEAN
         /\ fresh' => cache' = wf'
         /\ wf'.attempts <= rollouts'
         /\ wk.status.attempts <= rollouts'
         /\ rollouts' \in 0..(Retries + 1)
         /\ faults' = faults
<1>1. wf' = wk.status /\ cache' = cache /\ faults' = faults
  BY DEF StatusWritten
<1>2. fresh' \in BOOLEAN
  BY Zenon DEF StatusWritten
<1>3. wk.status.attempts <= rollouts /\ wk.status.attempts \in 0..Retries
  BY DEF DevInv, StatusWritten, GoodStatus, Status
<1>4. rollouts' \in 0..(Retries + 1) /\ wk.status.attempts <= rollouts'
  BY <1>3, DevAssumption DEF DevInv, DevTypeOK, StatusWritten, DevAssumption
<1>5. fresh' => cache' = wf'
  BY <1>1 DEF DevInv, StatusWritten
<1>. QED
  BY <1>1, <1>2, <1>4, <1>5 DEF DevInv

\* A refused one changes nothing but the budget.
LEMMA RefusedOK ==
  ASSUME DevInv, StatusRefused
  PROVE  UNCHANGED serverVars /\ UNCHANGED rollouts /\ faults' \in 0..MaxFaults
BY FaultOK DEF DevInv, StatusRefused

-----------------------------------------------------------------------------
(* The inductive invariant.                                                *)

\* The initial state satisfies the invariant.
LEMMA DevInit == Init => DevInv
<1>. SUFFICES ASSUME Init PROVE DevInv
  OBVIOUS
<1>1. NewStatus.attempts = 0 /\ NewStatus \in Status
  BY DevConstants DEF NewStatus, GoodStatus
<1>2. NoTimer \in 0..NoTimer /\ 0 \in 0..(Retries + 1) /\ 0 \in 0..MaxFaults
  BY DevAssumption DEF DevAssumption, NoTimer
<1>3. DevTypeOK
  BY <1>1, <1>2, DevConstants DEF Init, DevTypeOK, Healths
<1>. QED
  BY <1>1, <1>3, DevConstants DEF Init, DevInv

\* Every step of the reconciler keeps the invariant.
LEMMA ReconcilerStep ==
  ASSUME DevInv, Reconciler
  PROVE  DevInv'
<1>. USE DEF DevInv
<1>1. /\ wf \in Status /\ cache \in Status /\ wk.status \in Status
      /\ wk.status.attempts \in 0..Retries
      /\ rollouts \in 0..(Retries + 1) /\ rollouts <= rollouts
  BY DevAssumption DEF DevTypeOK, GoodStatus, Status, DevAssumption
<1>2. CASE WfStart
  <2>. DEFINE c == InitializeConditions(cache.conds, "Running", {"Built"})
              s == [cache EXCEPT !.conds = c]
              pc == DevDispatch(c["Running"])
  <2>1. c \in DevConditions /\ c["Running"].reason \in {"", cache.conds["Running"].reason}
    BY <1>1, InitializedConds DEF Status
  <2>2. wk' = [pc |-> pc, status |-> s, fresh |-> fresh, after |-> 0]
    BY <1>2 DEF WfStart
  <2>3. pc \in DevSteps
    BY DEF DevDispatch, DevSteps
  <2>. HIDE DEF c, pc
  <2>4. s \in GoodStatus /\ s.attempts = cache.attempts
    BY <1>1, <2>1 DEF GoodStatus, Status
  <2>. HIDE DEF s
  <2>5. wk' \in Request /\ wk'.status = s /\ wk'.fresh = fresh
    BY <2>2, <2>3, <2>4, DevConstants DEF Request, DevTypeOK, GoodStatus
  <2>6. rollouts' = rollouts /\ (fresh => s.attempts <= rollouts)
    BY <1>2, <2>4 DEF WfStart
  <2>7. RequestOK
    BY <2>4, <2>5, <2>6 DEF RequestOK
  <2>. QED
    BY <1>1, <1>2, <2>7, HandlerFrame DEF WfStart, clusterVars, DevTypeOK
<1>3. CASE EnsureConfigMaps
  <2>1. RequestOK /\ queued' \in BOOLEAN /\ timer' \in 0..NoTimer
    BY <1>3, StepOK, ReturnErrOK DEF EnsureConfigMaps, DevSteps, DevTypeOK
  <2>2. faults' \in 0..MaxFaults
    BY <1>3, FaultOK DEF EnsureConfigMaps
  <2>. QED
    BY <1>1, <1>3, <2>1, <2>2, HandlerFrame DEF EnsureConfigMaps, clusterVars, DevTypeOK
<1>4. CASE FetchExternalResources
  <2>1. RequestOK
    <3>1. CASE wk' = [wk EXCEPT !.pc = "deployment"]
      BY <1>4, <3>1, StepOK DEF FetchExternalResources, DevSteps
    <3>2. CASE FinishWith("finish", Marked("ExternalResourcesNotFound"), AfterFailure)
      BY <1>4, <3>2, MarkedGood, FinishOK, DevConstants
         DEF FetchExternalResources, DevSteps, DevReasons
    <3>. QED
      BY <1>4, <3>1, <3>2 DEF FetchExternalResources
  <2>2. faults' \in 0..MaxFaults
    BY <1>4, FaultOK DEF FetchExternalResources
  <2>. QED
    BY <1>1, <1>4, <2>1, <2>2, HandlerFrame DEF FetchExternalResources, clusterVars, DevTypeOK
<1>5. CASE EnsureDeployment
  <2>1. rollouts' = rollouts /\ UNCHANGED serverVars /\ external' \in BOOLEAN
    BY <1>5 DEF EnsureDeployment, DevTypeOK
  <2>2. deploy' \in Healths
    BY <1>5 DEF EnsureDeployment, DevTypeOK, Healths
  <2>3. CASE EnsuredRunning(deploy') /\ queued' = (queued \/ deploy' # deploy) /\ UNCHANGED faults
    <3>1. queued' \in BOOLEAN
      BY <2>3, Zenon
    <3>2. RequestOK /\ timer' \in 0..NoTimer
      <4>1. CASE /\ FinishWith("finish", Marked("WaitingForDeployment"), AfterRunning)
                 /\ UNCHANGED timer
        BY <2>1, <4>1, MarkedGood, FinishOK, DevConstants DEF DevSteps, DevReasons, DevTypeOK
      <4>2. CASE /\ FinishWith("finish", Marked("DeploymentUnavailable"), AfterRunning)
                 /\ UNCHANGED timer
        BY <2>1, <4>2, MarkedGood, FinishOK, DevConstants DEF DevSteps, DevReasons, DevTypeOK
      <4>3. CASE wk' = Idle /\ timer' = IF AfterRunning < timer THEN AfterRunning ELSE timer
        BY <4>3, IdleOK, DevAssumption DEF DevAssumption, NoTimer, DevTypeOK
      <4>. QED
        BY <2>3, <4>1, <4>2, <4>3 DEF EnsuredRunning
    <3>. QED
      BY <1>1, <2>1, <2>2, <2>3, <3>1, <3>2, HandlerFrame DEF DevTypeOK
  <2>4. CASE Fault("api") /\ ReturnErr
    BY <1>1, <2>1, <2>2, <2>4, FaultOK, ReturnErrOK, HandlerFrame
  <2>. QED
    BY <1>5, <2>3, <2>4 DEF EnsureDeployment
<1>6. CASE FollowDeployment
  <2>1. rollouts' = rollouts /\ UNCHANGED serverVars /\ UNCHANGED clusterVars
    BY <1>6 DEF FollowDeployment
  <2>2. ASSUME NEW s \in SyncedStatus(deploy), FinishWith("followUpdate", s, SyncedAfter(s))
        PROVE  RequestOK
    <3>1. SyncedAfter(s) \in 0..Interval
      BY DevConstants DEF SyncedAfter
    <3>. DEFINE M(r) == Marked(r)
                t == [wk.status EXCEPT !.conds = MarkTrue(@, "Running")]
                u == [Marked("DeploymentFailure") EXCEPT !.last = 0]
    <3>2. s \in {Marked("DeploymentUnavailable"), Marked("WaitingForDeployment"), t, u}
      BY DEF SyncedStatus
    <3>3. \A r \in {"DeploymentUnavailable", "WaitingForDeployment", "DeploymentFailure"} :
            Marked(r) \in GoodStatus /\ Marked(r).attempts = wk.status.attempts
      BY MarkedGood DEF DevReasons
    <3>4. t \in GoodStatus /\ t.attempts = wk.status.attempts
      <4>1. MarkTrue(wk.status.conds, "Running") \in DevConditions
            /\ MarkTrue(wk.status.conds, "Running")["Running"].reason = ""
        BY <1>1, MarkedConds DEF Status, DevReasons
      <4>. QED
        BY <1>1, <4>1 DEF GoodStatus, Status
    <3>5. u \in GoodStatus /\ u.attempts = wk.status.attempts
      BY <3>3, DevConstants DEF GoodStatus, Status
    <3>6. s \in GoodStatus /\ s.attempts = wk.status.attempts
      BY <3>2, <3>3, <3>4, <3>5
    <3>. QED
      BY <2>1, <2>2, <3>1, <3>6, FinishOK DEF DevSteps
  <2>3. RequestOK /\ queued' \in BOOLEAN /\ timer' \in 0..NoTimer /\ faults' \in 0..MaxFaults
    BY <1>6, <2>2, FaultOK, ReturnErrOK DEF FollowDeployment, DevTypeOK
  <2>. QED
    BY <1>1, <2>1, <2>3, HandlerFrame DEF clusterVars, DevTypeOK
<1>7. CASE FollowUpdate
  <2>1. CASE StatusWritten /\ wk' = [wk EXCEPT !.pc = "post"] /\ UNCHANGED <<queued, timer>>
    <3>1. RequestOK
      BY <2>1, WrittenOK, StepOK DEF DevSteps
    <3>. QED
      BY <1>7, <2>1, <3>1, WrittenOK
         DEF FollowUpdate, clusterVars, DevTypeOK, RequestOK, GoodStatus
  <2>2. CASE StatusRefused /\ ReturnErr
    BY <1>1, <1>7, <2>2, RefusedOK, ReturnErrOK, HandlerFrame
       DEF FollowUpdate, clusterVars, DevTypeOK
  <2>. QED
    BY <1>7, <2>1, <2>2 DEF FollowUpdate
<1>8. CASE FollowPost
  <2>1. rollouts' = rollouts /\ UNCHANGED serverVars /\ UNCHANGED clusterVars
    BY <1>8 DEF FollowPost
  <2>2. wk.after \in 0..Interval
    BY DEF DevTypeOK, Request
  <2>. DEFINE s == [wk.status EXCEPT !.endpoint = TRUE]
  <2>3. s \in GoodStatus /\ s.attempts = wk.status.attempts
    BY DEF GoodStatus, Status
  <2>. HIDE DEF s
  <2>4. CASE FinishWith("enriched", s, wk.after) /\ UNCHANGED <<queued, timer, faults>>
    BY <1>1, <2>1, <2>2, <2>3, <2>4, FinishOK, HandlerFrame DEF DevSteps, clusterVars, DevTypeOK
  <2>5. CASE Return(wk.after) /\ UNCHANGED faults
    BY <1>1, <2>1, <2>2, <2>5, ReturnOK, HandlerFrame DEF clusterVars, DevTypeOK
  <2>6. CASE ((deploy = "absent" /\ UNCHANGED faults) \/ Fault("api")) /\ ReturnErr
    BY <1>1, <2>1, <2>6, FaultOK, ReturnErrOK, HandlerFrame DEF clusterVars, DevTypeOK
  <2>. QED
    BY <1>8, <2>4, <2>5, <2>6 DEF FollowPost, s
<1>9. CASE RecoverFromFailure
  <2>1. UNCHANGED serverVars /\ UNCHANGED clusterVars
    BY <1>9 DEF RecoverFromFailure
  <2>2. CASE RecoverNoRollout
    <3>1. rollouts' = rollouts /\ UNCHANGED <<queued, timer, faults>>
      BY <2>2 DEF RecoverNoRollout
    <3>. DEFINE c == MarkUnknown(wk.status.conds, "Running", {"Built"}, "Running", "")
                d == MarkTrue(wk.status.conds, "Running")
    <3>2. /\ c \in DevConditions /\ c["Running"].reason = ""
          /\ d \in DevConditions /\ d["Running"].reason = ""
      BY <1>1, MarkedConds DEF Status, DevReasons
    <3>3. 0 <= rollouts
      BY <1>1
    <3>. HIDE DEF c, d
    <3>5. Reset(wk.status) \in GoodStatus /\ Reset(wk.status).attempts = 0
      BY <3>2, StartOver DEF Reset, c
    <3>6. Recovered(wk.status) \in GoodStatus /\ Recovered(wk.status).attempts = 0
      BY <3>2, StartOver DEF Recovered, d
    <3>10. RequestOK
      <4>1. CASE FinishWith("finish", Reset(wk.status), AfterFailure)
        BY <3>1, <3>3, <3>5, <4>1, FinishOK, DevConstants DEF DevSteps
      <4>2. CASE FinishWith("finish", Recovered(wk.status), AfterFailure)
        BY <3>1, <3>3, <3>6, <4>2, FinishOK, DevConstants DEF DevSteps
      <4>3. CASE /\ Exhausted(wk.status)
                 /\ FinishWith("finish", Marked("RedeploymentExhausted"), Interval)
        <5>1. wk.status.attempts = Retries
          BY <1>1, <4>3, DevAssumption DEF Exhausted, DevAssumption
        <5>. QED
          BY <3>1, <4>3, <5>1, MarkedGood, FinishOK, DevConstants DEF DevSteps, DevReasons
      <4>. QED
        BY <2>2, <4>1, <4>2, <4>3 DEF RecoverNoRollout
    <3>. QED
      BY <1>1, <2>1, <3>1, <3>10, HandlerFrame DEF clusterVars, DevTypeOK
  <2>3. CASE /\ ~Exhausted(wk.status)
             /\ Rollout
    <3>. DEFINE s == [wk.status EXCEPT !.attempts = @ + 1, !.last = 0]
    <3>1. wk.status.attempts + 1 \in 0..Retries /\ wk.status.attempts # Retries
      BY <1>1, <2>3, DevAssumption DEF Exhausted, DevAssumption
    <3>2. s \in GoodStatus /\ s.attempts = wk.status.attempts + 1
      BY <1>1, <3>1, DevConstants DEF GoodStatus, Status
    <3>. HIDE DEF s
    <3>3. wk' = [wk EXCEPT !.pc = "finish", !.status = s, !.after = Interval]
      BY <2>3 DEF Rollout, FinishWith, s
    <3>4. wk' \in Request /\ wk'.status = s /\ wk'.fresh = wk.fresh
      BY <3>2, <3>3, DevConstants DEF DevTypeOK, Request, DevSteps, GoodStatus
    <3>5. rollouts' \in 0..(Retries + 1) /\ rollouts <= rollouts'
      BY <1>1, <2>3, DevAssumption DEF Rollout, DevAssumption
    <3>6. wk.fresh => s.attempts <= rollouts'
      BY <1>1, <2>3, <3>1, <3>2, DevAssumption DEF Rollout, DevAssumption
    <3>7. RequestOK
      BY <3>2, <3>4, <3>6 DEF RequestOK
    <3>. QED
      BY <2>1, <2>3, <3>5, <3>7, HandlerFrame DEF Rollout, clusterVars, DevTypeOK
  <2>4. CASE Return(Interval) /\ UNCHANGED rollouts /\ (UNCHANGED faults \/ Fault("api"))
    BY <1>1, <2>1, <2>4, FaultOK, ReturnOK, HandlerFrame, DevConstants DEF clusterVars, DevTypeOK
  <2>5. CASE Fault("api") /\ ReturnErr /\ UNCHANGED rollouts
    BY <1>1, <2>1, <2>5, FaultOK, ReturnErrOK, HandlerFrame DEF clusterVars, DevTypeOK
  <2>. QED
    BY <1>9, <2>2, <2>3, <2>4, <2>5 DEF RecoverFromFailure, RecoverRollout, RolloutErr
<1>10. CASE WfFinish
  <2>1. wk.after \in 0..Interval
    BY DEF DevTypeOK, Request
  <2>2. CASE StatusWritten /\ Return(wk.after)
    BY <1>10, <2>1, <2>2, WrittenOK, ReturnOK
       DEF WfFinish, clusterVars, DevTypeOK, RequestOK, GoodStatus
  <2>3. CASE StatusRefused /\ ReturnErr
    BY <1>1, <1>10, <2>3, RefusedOK, ReturnErrOK, HandlerFrame DEF WfFinish, clusterVars, DevTypeOK
  <2>. QED
    BY <1>10, <2>2, <2>3 DEF WfFinish
<1>. QED
  BY <1>2, <1>3, <1>4, <1>5, <1>6, <1>7, <1>8, <1>9, <1>10 DEF Reconciler

\* So does every step of the environment.
LEMMA EnvironmentStep ==
  ASSUME DevInv, Environment
  PROVE  DevInv'
<1>. USE DEF DevInv
<1>1. wk \in Request /\ rollouts \in 0..(Retries + 1)
  BY DEF DevTypeOK
<1>2. ASSUME wk' = wk, UNCHANGED rollouts
      PROVE  RequestOK
  BY <1>1, <1>2 DEF RequestOK
<1>3. ASSUME NEW last \in 0..Never
      PROVE  /\ [wf EXCEPT !.last = last] \in GoodStatus
             /\ [wf EXCEPT !.last = last].attempts = wf.attempts
  BY DEF GoodStatus, Status
<1>4. wf.last \in 0..Never
  BY DEF GoodStatus, Status
<1>5. CASE Deliver
  BY <1>1, <1>2, <1>5 DEF Deliver, clusterVars, DevTypeOK, RequestOK
<1>6. CASE TimerFires
  BY <1>1, <1>2, <1>6, HandlerFrame, DevAssumption
     DEF TimerFires, clusterVars, DevTypeOK, NoTimer, DevAssumption
<1>7. CASE Tick
  <2>1. Aged(wf) \in GoodStatus /\ Aged(wf).attempts = wf.attempts
    <3>1. (IF wf.last < Interval THEN wf.last + 1 ELSE wf.last) \in 0..Never
      BY <1>4, DevAssumption DEF Never, DevAssumption
    <3>. QED
      BY <1>3, <3>1 DEF Aged
  <2>2. timer' \in 0..NoTimer
    BY <1>7, DevAssumption DEF Tick, NoTimer, DevAssumption
  <2>. QED
    BY <1>1, <1>2, <1>7, <2>1, <2>2 DEF Tick, clusterVars, DevTypeOK, RequestOK, GoodStatus
<1>8. CASE OperatorRestart
  <2>1. PICK status \in {wf, [wf EXCEPT !.last = IF @ = Never THEN Never ELSE Interval]} :
          wf' = status /\ cache' = status
    BY <1>8 DEF OperatorRestart
  <2>2. status \in GoodStatus /\ status.attempts = wf.attempts
    <3>. DEFINE last == IF wf.last = Never THEN Never ELSE Interval
    <3>1. last \in 0..Never
      BY DevAssumption DEF Never, DevAssumption
    <3>2. status \in {wf, [wf EXCEPT !.last = last]}
      BY <2>1
    <3>. HIDE DEF last
    <3>. QED
      BY <1>3, <3>1, <3>2
  <2>3. RequestOK /\ faults' \in 0..MaxFaults /\ timer' \in 0..NoTimer
    BY <1>8, IdleOK, FaultOK, DevAssumption DEF OperatorRestart, NoTimer, DevAssumption
  <2>4. DevTypeOK'
    BY <1>8, <2>1, <2>2, <2>3 DEF OperatorRestart, clusterVars, DevTypeOK, RequestOK, GoodStatus
  <2>. QED
    BY <1>8, <2>1, <2>2, <2>3, <2>4 DEF OperatorRestart, RequestOK
<1>9. CASE DeploymentAvailable
  BY <1>1, <1>2, <1>9, HandlerFrame, DevAssumption
     DEF DeploymentAvailable, DevTypeOK, Healths, DevAssumption
<1>10. CASE DeploymentFails
  <2>1. deploy' \in Healths /\ faults' \in 0..MaxFaults
    BY <1>10, FaultOK DEF DeploymentFails, Healths
  <2>. QED
    BY <1>1, <1>2, <1>10, <2>1, HandlerFrame, DevAssumption
       DEF DeploymentFails, DevTypeOK, DevAssumption
<1>11. CASE ExternalDeleted
  <2>1. external' \in BOOLEAN /\ faults' \in 0..MaxFaults
    BY <1>11, FaultOK DEF ExternalDeleted
  <2>. QED
    BY <1>1, <1>2, <1>11, <2>1, HandlerFrame, DevAssumption
       DEF ExternalDeleted, DevTypeOK, DevAssumption
<1>12. CASE ExternalCreated
  BY <1>1, <1>2, <1>12, HandlerFrame, DevAssumption
     DEF ExternalCreated, DevTypeOK, DevAssumption
<1>. QED
  BY <1>5, <1>6, <1>7, <1>8, <1>9, <1>10, <1>11, <1>12 DEF Environment

\* The invariant holds throughout.
THEOREM DevInvariance == Spec => []DevInv
<1>1. Init => DevInv
  BY DevInit
<1>2. DevInv /\ [Next]_vars => DevInv'
  <2>. SUFFICES ASSUME DevInv, [Next]_vars PROVE DevInv'
    OBVIOUS
  <2>1. CASE Next
    BY <2>1, ReconcilerStep, EnvironmentStep DEF Next
  <2>2. CASE UNCHANGED vars
    BY <2>2 DEF vars, serverVars, clusterVars, DevInv, DevTypeOK
  <2>. QED
    BY <2>1, <2>2
<1>. QED
  BY <1>1, <1>2, PTL DEF Spec

\* The dev profile's status, requests and counters are always well typed;
\* in particular RecoverFailureAttempts never exceeds its limit.
THEOREM DevTypeCorrect == Spec => []DevTypeOK
<1>1. DevInv => DevTypeOK
  BY DEF DevInv
<1>. QED
  BY <1>1, DevInvariance, PTL

\* Whatever is lost between a rollout and the status update that counts it,
\* the operator never gives up on a Deployment before it has rolled it out
\* RecoverDeploymentErrorRetries times.
THEOREM GivesUpTheorem == Spec => []GivesUpOnlyAfterTrying
<1>1. DevInv => GivesUpOnlyAfterTrying
  BY DevAssumption DEF DevInv, GivesUpOnlyAfterTrying, GoodStatus, DevAssumption
<1>. QED
  BY <1>1, DevInvariance, PTL
=============================================================================
