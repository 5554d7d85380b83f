---------------------------- MODULE GitOpsProofs ----------------------------
(***************************************************************************)
(* Proofs about GitOpsProfile, for every set of events and sources, every  *)
(* status it may begin with and every number and set of faults.            *)
(***************************************************************************)
EXTENDS GitOpsProfile, WellFoundedInduction, FiniteSetTheorems, TLAPS

Clean == {"cleanup", "removeFinalizer"}

\* The finalizer.  A copy that has it was read or answered while the server
\* had it, and only a clean-up takes it away again.
FinalizerInv ==
  /\ workflow.exists /\ (cache.finalizer \/ request.wf.finalizer) => workflow.finalizer
  /\ ~workflow.exists /\ request.wf.finalizer => request.pc \in Clean
  /\ ~workflow.exists /\ cache.exists /\ cache.finalizer => cache.deleting
  /\ request.pc \in Clean => cache.deleting
  /\ cache.deleting => workflow.deleting
  /\ request.pc = "trigger" => request.todo # {}
  /\ request.pc = "trigger" /\ Remote(NextTrigger) => request.wf.finalizer

\* The list.  What a copy that can still be written lists is all the server
\* lists, except for the triggers a clean-up has deleted.
ListInv ==
  /\ cached => cache = workflow
  /\ current /\ request.pc \notin {"idle"} \cup Clean => workflow.listed \subseteq request.wf.listed
  /\ request.pc \in Clean =>
       /\ current /\ workflow.exists => workflow.listed \subseteq request.wf.listed \cup request.todo
       /\ request.todo \cap triggers = {}
  /\ request.pc = "removeFinalizer" => request.wf.listed = {}

\* The inductive invariant.
GitOpsInv ==
  /\ GitOpsTypeOK
  /\ FinalizerInv
  /\ ListInv
  /\ FinalizerGuardsTriggers

-----------------------------------------------------------------------------
(* The values a step builds.                                               *)

\* Among triggers still to be dealt with there is an earliest one.
LEMMA EarliestIn ==
  ASSUME NEW todo \in SUBSET Triggers, todo # {}
  PROVE  Earliest(todo) \in todo
<1>. DEFINE R == {ss \in Nat \X Nat : ss[1] < ss[2]}
            T == {t.event : t \in todo}
<1>1. IsWellFoundedOn(R, Nat)
  BY NatLessThanWellFounded DEF OpToRel
<1>2. Events \subseteq Nat
  <2>1. Cardinality(Events) \in Nat
    BY FS_CardinalityType, GitOpsAssumption DEF GitOpsAssumption
  <2>. QED
    BY <2>1, GitOpsAssumption DEF GitOpsAssumption
<1>3. T \subseteq Nat /\ T # {}
  BY <1>2 DEF Triggers
<1>. HIDE DEF T
<1>4. PICK n \in T : \A k \in T : <<k, n>> \notin R
  BY <1>1, <1>3, WFMin
<1>5. \A k \in T : n <= k
  <2>. SUFFICES ASSUME NEW k \in T
                PROVE  n <= k
    OBVIOUS
  <2>1. n \in Nat /\ k \in Nat
    BY <1>3
  <2>2. <<k, n>> \in Nat \X Nat /\ <<k, n>>[1] = k /\ <<k, n>>[2] = n
    BY <2>1
  <2>3. ~(k < n)
    BY <1>4, <2>2
  <2>. QED
    BY <2>1, <2>3
<1>6. \E t \in todo : \A u \in todo : t.event <= u.event
  BY <1>4, <1>5 DEF T
<1>. QED
  BY <1>6 DEF Earliest

\* Marking the conditions of a workflow keeps them conditions.
LEMMA MarkedConditions ==
  ASSUME NEW c \in ConditionMap, NEW r \in Reasons
  PROVE  /\ MarkFalse(c, "Running", r) \in ConditionMap
         /\ MarkFalse(c, "Built", r) \in ConditionMap
         /\ MarkTrue(c, "Running") \in ConditionMap
<1>1. ASSUME NEW t \in {"Running", "Built"}, NEW st \in {"True", "False"}, NEW s \in Reasons
      PROVE  SetCondition(c, t, Cond(st, s)) \in ConditionMap
  BY DEF SetCondition, Cond, ConditionMap
<1>2. "" \in Reasons
  BY DEF Reasons
<1>. QED
  BY <1>1, <1>2 DEF MarkFalse, MarkTrue

\* So does initialising them.
LEMMA InitializedConditions ==
  ASSUME NEW c \in ConditionMap
  PROVE  InitializeConditions(c, "Running", {"Built"}) \in ConditionMap
<1>1. DOMAIN c = {"Running", "Built"}
  BY DEF ConditionMap
<1>2. "" \in Reasons
  BY DEF Reasons
<1>. QED
  BY <1>1, <1>2 DEF InitializeConditions, ConditionMap, Cond, NilCond

\* A fault keeps within the budget.
LEMMA FaultOK ==
  ASSUME GitOpsTypeOK, NEW kind, Fault(kind)
  PROVE  faults' \in 0..MaxFaults
BY GitOpsAssumption DEF GitOpsAssumption, GitOpsTypeOK, Fault

\* Between requests there is no workflow in memory.
LEMMA IdleOK ==
  /\ NoWorkflow \in Workflow /\ ~NoWorkflow.finalizer
  /\ IdleRequest \in Request /\ IdleRequest.pc = "idle"
  /\ IdleRequest.wf = NoWorkflow /\ IdleRequest.todo = {}
<1>1. (CHOOSE e \in EventSpecs : TRUE) \in EventSpecs
  BY GitOpsAssumption DEF GitOpsAssumption
<1>2. NilConds \in ConditionMap
  BY DEF NilConds, NilCond, Cond, ConditionMap, Reasons
<1>3. NoWorkflow \in Workflow /\ ~NoWorkflow.finalizer
  BY <1>1, <1>2 DEF NoWorkflow, Workflow
<1>4. IdleRequest = [pc |-> "idle", wf |-> NoWorkflow, todo |-> {}, created |-> FALSE]
  BY DEF IdleRequest
<1>5. IdleRequest \in Request
  BY <1>3, <1>4 DEF Request, RequestSteps
<1>. QED
  BY <1>3, <1>4, <1>5

\* The queue, the brokers, the Deployment and the budget have their types.
RestOK ==
  queued \in BOOLEAN /\ broker \subseteq Namespaces /\ deployment \in Health /\ faults \in 0..MaxFaults

-----------------------------------------------------------------------------
(* How steps keep the invariant.                                           *)

\* A step outside the controller may take triggers away.
LEMMA ClusterStep ==
  ASSUME GitOpsInv, UNCHANGED <<objectVars, current, request>>, triggers' \subseteq triggers, RestOK'
  PROVE  GitOpsInv'
<1>1. GitOpsTypeOK'
  BY DEF GitOpsInv, GitOpsTypeOK, objectVars, RestOK
<1>2. FinalizerInv'
  BY DEF GitOpsInv, FinalizerInv, objectVars, NextTrigger
<1>3. ListInv'
  BY DEF GitOpsInv, ListInv, objectVars
<1>4. FinalizerGuardsTriggers'
  BY DEF GitOpsInv, FinalizerGuardsTriggers, objectVars
<1>. QED
  BY <1>1, <1>2, <1>3, <1>4 DEF GitOpsInv

\* A request may end.
LEMMA ReturnStep ==
  ASSUME GitOpsInv, UNCHANGED <<objectVars, current, triggers>>, request' = IdleRequest, RestOK'
  PROVE  GitOpsInv'
<1>1. GitOpsTypeOK'
  BY IdleOK DEF GitOpsInv, GitOpsTypeOK, objectVars, RestOK
<1>2. FinalizerInv'
  BY IdleOK DEF GitOpsInv, FinalizerInv, objectVars, Clean
<1>3. ListInv'
  BY IdleOK DEF GitOpsInv, ListInv, objectVars, Clean
<1>4. FinalizerGuardsTriggers'
  BY DEF GitOpsInv, FinalizerGuardsTriggers, objectVars
<1>. QED
  BY <1>1, <1>2, <1>3, <1>4 DEF GitOpsInv

\* One that is not a clean-up may go on with the conditions of its copy, the
\* triggers to be dealt with and what it knows of the Deployment changed.
LEMMA RequestStep ==
  ASSUME GitOpsInv, UNCHANGED <<objectVars, current, triggers>>, RestOK',
         request.pc \notin {"idle"} \cup Clean,
         request' \in Request, request'.pc \notin {"idle", "trigger"} \cup Clean,
         request'.wf.finalizer = request.wf.finalizer, request'.wf.listed = request.wf.listed
  PROVE  GitOpsInv'
<1>1. GitOpsTypeOK'
  BY DEF GitOpsInv, GitOpsTypeOK, objectVars, RestOK
<1>2. FinalizerInv'
  BY DEF GitOpsInv, FinalizerInv, objectVars, Clean
<1>3. ListInv'
  BY DEF GitOpsInv, ListInv, objectVars, Clean
<1>4. FinalizerGuardsTriggers'
  BY DEF GitOpsInv, FinalizerGuardsTriggers, objectVars
<1>. QED
  BY <1>1, <1>2, <1>3, <1>4 DEF GitOpsInv

\* What a status update leaves: at least the list there was.
LEMMA PutStatusOK ==
  ASSUME GitOpsInv, PutStatus, request.pc \notin {"idle"} \cup Clean
  PROVE  /\ workflow' \in Workflow
         /\ workflow.listed \subseteq workflow'.listed
         /\ workflow'.exists /\ workflow.exists
         /\ workflow'.finalizer = workflow.finalizer /\ workflow'.deleting = workflow.deleting
         /\ cached' \in BOOLEAN /\ (cached' => cache' = workflow') /\ cache' = cache
<1>1. workflow \in Workflow /\ request.wf.conds \in ConditionMap /\ request.wf.listed \in SUBSET Triggers
  BY DEF GitOpsInv, GitOpsTypeOK, Request, Workflow
<1>2. workflow.listed \subseteq request.wf.listed /\ workflow.exists
  BY DEF GitOpsInv, ListInv, PutStatus, CanWrite
<1>3. workflow' = [workflow EXCEPT !.conds = request.wf.conds, !.listed = request.wf.listed]
  BY DEF PutStatus, Put
<1>4. cached' = (cached /\ workflow' = workflow) /\ cache' = cache
  BY DEF PutStatus, Put
<1>5. cached' \in BOOLEAN /\ (cached' => cache' = workflow')
  BY <1>4 DEF GitOpsInv, ListInv
<1>. QED
  BY <1>1, <1>2, <1>3, <1>4, <1>5 DEF Workflow

\* A status update ends its request.
LEMMA PutStatusStep ==
  ASSUME GitOpsInv, PutStatus, request.pc \notin {"idle"} \cup Clean,
         request' = IdleRequest, UNCHANGED <<current, triggers>>, RestOK'
  PROVE  GitOpsInv'
<1>1. GitOpsTypeOK'
  BY PutStatusOK, IdleOK DEF GitOpsInv, GitOpsTypeOK, RestOK
<1>2. FinalizerInv'
  BY PutStatusOK, IdleOK DEF GitOpsInv, FinalizerInv, Clean
<1>3. ListInv'
  BY PutStatusOK, IdleOK DEF ListInv, Clean
<1>4. FinalizerGuardsTriggers'
  BY PutStatusOK DEF GitOpsInv, FinalizerGuardsTriggers
<1>. QED
  BY <1>1, <1>2, <1>3, <1>4 DEF GitOpsInv

-----------------------------------------------------------------------------
(* The controller.                                                         *)

\* What a request starts with: the conditions of the copy may be changed.
Begun(w, pc, conds) == [IdleRequest EXCEPT !.pc = pc, !.wf = [w EXCEPT !.conds = conds]]

\* It has the finalizer and the list of the copy.
LEMMA BegunOK ==
  ASSUME NEW w \in Workflow, NEW pc \in RequestSteps, NEW c \in ConditionMap
  PROVE  /\ Begun(w, pc, c) \in Request /\ Begun(w, pc, c).pc = pc /\ Begun(w, pc, c).todo = {}
         /\ Begun(w, pc, c).wf.finalizer = w.finalizer /\ Begun(w, pc, c).wf.listed = w.listed
<1>1. [w EXCEPT !.conds = c] \in Workflow
  BY DEF Workflow
<1>2. IdleRequest \in Request /\ IdleRequest.todo = {}
  BY IdleOK
<1>. QED
  BY <1>1, <1>2 DEF Request, Workflow, Begun

\* A request works on a copy of what the cache has.
LEMMA StartStep ==
  ASSUME GitOpsInv, Start
  PROVE  GitOpsInv'
<1>. DEFINE conds == InitializeConditions(cache.conds, "Running", {"Built"})
            begin(pc, c) == Begun(cache, pc, c)
            skipped == MarkFalse(conds, "Built", "BuildSkipped")
            steps == {"buildSkipped", "deployment"}
<1>1. cache \in Workflow /\ cache.conds \in ConditionMap
  BY DEF GitOpsInv, GitOpsTypeOK, Workflow
<1>2. conds \in ConditionMap /\ skipped \in ConditionMap
  BY <1>1, InitializedConditions, MarkedConditions DEF Reasons
<1>3. /\ request.pc = "idle" /\ queued' \in BOOLEAN
      /\ UNCHANGED <<objectVars, clusterVars, faults>>
      /\ \/ UNCHANGED <<request, current>>
         \/ /\ current' = cached /\ cache.exists
            /\ \/ request' = request
               \/ request' = begin("cleanup", cache.conds) /\ cache.deleting /\ cache.finalizer
               \/ /\ ~(cache.deleting /\ cache.finalizer)
                  /\ \/ request' = begin("buildSkipped", skipped)
                     \/ request' = begin("deployment", conds)
  BY DEF Start, GitOpsInv, GitOpsTypeOK, Begun
<1>. HIDE DEF conds, skipped
<1>4. CASE UNCHANGED request
  <2>1. current' \in BOOLEAN
    BY <1>3 DEF GitOpsInv, GitOpsTypeOK
  <2>2. GitOpsTypeOK'
    BY <1>3, <1>4, <2>1 DEF GitOpsInv, GitOpsTypeOK, objectVars, clusterVars
  <2>3. FinalizerInv' /\ FinalizerGuardsTriggers'
    BY <1>3, <1>4 DEF GitOpsInv, FinalizerInv, FinalizerGuardsTriggers, NextTrigger, objectVars, clusterVars
  <2>4. ListInv'
    BY <1>3, <1>4 DEF GitOpsInv, ListInv, Clean, objectVars, clusterVars
  <2>. QED
    BY <2>2, <2>3, <2>4 DEF GitOpsInv
<1>5. ASSUME NEW pc \in {"cleanup"} \cup steps, NEW c \in ConditionMap,
             request' = begin(pc, c), current' = cached, cache.exists,
             pc = "cleanup" <=> cache.deleting /\ cache.finalizer
      PROVE  GitOpsInv'
  <2>1. /\ request' \in Request /\ request'.pc = pc /\ request'.todo = {}
        /\ request'.wf.finalizer = cache.finalizer /\ request'.wf.listed = cache.listed
    <3>1. pc \in RequestSteps
      BY DEF RequestSteps
    <3>. QED
      BY <1>1, <1>5, <3>1, BegunOK
  <2>2. GitOpsTypeOK'
    BY <1>3, <1>5, <2>1 DEF GitOpsInv, GitOpsTypeOK, objectVars, clusterVars
  <2>3. FinalizerInv'
    BY <1>3, <1>5, <2>1 DEF GitOpsInv, FinalizerInv, Clean, objectVars
  <2>4. ListInv'
    BY <1>3, <1>5, <2>1 DEF GitOpsInv, ListInv, Clean, objectVars
  <2>5. FinalizerGuardsTriggers'
    BY <1>3 DEF GitOpsInv, FinalizerGuardsTriggers, objectVars, clusterVars
  <2>. QED
    BY <2>2, <2>3, <2>4, <2>5 DEF GitOpsInv
<1>. HIDE DEF begin
<1>. QED
  BY <1>1, <1>2, <1>3, <1>4, <1>5

\* A request that ends with a status update.
LEMMA WriteStatusStep ==
  ASSUME GitOpsInv, WriteStatus
  PROVE  GitOpsInv'
<1>1. RestOK'
  BY DEF WriteStatus, Return, GitOpsInv, GitOpsTypeOK, RestOK, clusterVars
<1>. QED
  BY <1>1, PutStatusStep DEF WriteStatus, Return, Clean, clusterVars

\* Ensuring the Deployment does not touch the workflow, ...
LEMMA EnsureDeploymentStep ==
  ASSUME GitOpsInv, EnsureDeployment
  PROVE  GitOpsInv'
<1>1. RestOK'
  BY DEF EnsureDeployment, GitOpsInv, GitOpsTypeOK, RestOK, Health
<1>2. request \in Request
  BY DEF GitOpsInv, GitOpsTypeOK
<1>3. /\ request' \in Request /\ request'.pc = "broker"
      /\ request'.wf = request.wf
  BY <1>2 DEF EnsureDeployment, Request, RequestSteps
<1>. QED
  BY <1>1, <1>3, RequestStep DEF EnsureDeployment, Clean

\* ... and when it fails only the conditions of the copy change, ...
LEMMA EnsureFailsStep ==
  ASSUME GitOpsInv, EnsureFails
  PROVE  GitOpsInv'
<1>1. RestOK'
  BY FaultOK DEF EnsureFails, GitOpsInv, GitOpsTypeOK, RestOK, clusterVars
<1>2. request \in Request /\ request.wf \in Workflow /\ request.wf.conds \in ConditionMap
  BY DEF GitOpsInv, GitOpsTypeOK, Request, Workflow
<1>3. PICK reason \in {"ExternalResourcesNotFound", "DeploymentUnavailable"} :
        request' = [request EXCEPT !.pc = "failed", !.wf.conds = MarkFalse(@, "Running", reason)]
  BY DEF EnsureFails
<1>4. MarkFalse(request.wf.conds, "Running", reason) \in ConditionMap
  BY <1>2, MarkedConditions DEF Reasons
<1>5. /\ request' \in Request /\ request'.pc = "failed"
      /\ request'.wf.finalizer = request.wf.finalizer /\ request'.wf.listed = request.wf.listed
  BY <1>2, <1>3, <1>4 DEF Request, RequestSteps, Workflow
<1>. QED
  BY <1>1, <1>5, RequestStep DEF EnsureFails, Clean, clusterVars

\* ... which are written, or the request ends all the same.
LEMMA WriteFailureStep ==
  ASSUME GitOpsInv, WriteFailure
  PROVE  GitOpsInv'
<1>1. RestOK'
  BY FaultOK DEF WriteFailure, Return, GitOpsInv, GitOpsTypeOK, RestOK, clusterVars
<1>2. /\ request.pc = "failed" /\ request' = IdleRequest /\ UNCHANGED <<current, triggers>>
      /\ PutStatus \/ UNCHANGED objectVars
  BY DEF WriteFailure, Return, clusterVars
<1>. QED
  BY <1>1, <1>2, PutStatusStep, ReturnStep DEF Clean

\* A request waits for brokers or goes on to the triggers, ...
LEMMA ValidateBrokersStep ==
  ASSUME GitOpsInv, ValidateBrokers
  PROVE  GitOpsInv'
<1>1. RestOK'
  BY DEF ValidateBrokers, Return, GitOpsInv, GitOpsTypeOK, RestOK, clusterVars
<1>2. request \in Request
  BY DEF GitOpsInv, GitOpsTypeOK
<1>3. CASE request' = IdleRequest
  BY <1>1, <1>3, ReturnStep DEF ValidateBrokers, clusterVars
<1>4. CASE request' = [request EXCEPT !.pc = "finalizer", !.todo = Wanted(request.wf.events)]
  <2>1. Wanted(request.wf.events) \in SUBSET Triggers
    BY DEF Wanted
  <2>2. request' \in Request /\ request'.pc = "finalizer" /\ request'.wf = request.wf
    BY <1>2, <1>4, <2>1 DEF Request, RequestSteps
  <2>. QED
    BY <1>1, <2>2, RequestStep DEF ValidateBrokers, Clean, clusterVars
<1>. QED
  BY <1>3, <1>4 DEF ValidateBrokers, Return

\* ... and after the last of them to the end ...
LEMMA AfterTriggersStep ==
  ASSUME GitOpsInv, AfterTriggers
  PROVE  GitOpsInv'
<1>1. RestOK'
  BY DEF AfterTriggers, GitOpsInv, GitOpsTypeOK, RestOK, clusterVars
<1>2. request \in Request /\ request.wf \in Workflow /\ request.wf.conds \in ConditionMap
  BY DEF GitOpsInv, GitOpsTypeOK, Request, Workflow
<1>3. MarkFalse(request.wf.conds, "Running", "WaitingForDeployment") \in ConditionMap
  BY <1>2, MarkedConditions DEF Reasons
<1>4. /\ request' \in Request /\ request'.pc \in {"created", "sync"}
      /\ request'.wf.finalizer = request.wf.finalizer /\ request'.wf.listed = request.wf.listed
  BY <1>2, <1>3 DEF AfterTriggers, Request, RequestSteps, Workflow
<1>. QED
  BY <1>1, <1>4, RequestStep DEF AfterTriggers, Clean, clusterVars

\* ... or to the conditions the Deployment stands for.
LEMMA SyncDeploymentStatusStep ==
  ASSUME GitOpsInv, SyncDeploymentStatus
  PROVE  GitOpsInv'
<1>1. RestOK'
  BY DEF SyncDeploymentStatus, GitOpsInv, GitOpsTypeOK, RestOK, clusterVars
<1>2. request \in Request /\ request.wf \in Workflow /\ request.wf.conds \in ConditionMap
  BY DEF GitOpsInv, GitOpsTypeOK, Request, Workflow
<1>3. RunningCondition(request.wf.conds) \in ConditionMap
  BY <1>2, MarkedConditions DEF RunningCondition, Reasons
<1>4. /\ request' \in Request /\ request'.pc = "finish"
      /\ request'.wf.finalizer = request.wf.finalizer /\ request'.wf.listed = request.wf.listed
  BY <1>2, <1>3 DEF SyncDeploymentStatus, Request, RequestSteps, Workflow
<1>. QED
  BY <1>1, <1>4, RequestStep DEF SyncDeploymentStatus, Clean, clusterVars

\* Before a trigger of another namespace is made, the server has the
\* finalizer and so has the copy, with all that the server lists.
LEMMA MutateTriggerStep ==
  ASSUME GitOpsInv, MutateTrigger
  PROVE  GitOpsInv'
<1>. DEFINE wf == [request.wf EXCEPT !.listed = AddToTriggerList(@, NextTrigger)]
<1>1. /\ workflow \in Workflow /\ request \in Request /\ request.wf \in Workflow
      /\ request.todo \in SUBSET Triggers
  BY DEF GitOpsInv, GitOpsTypeOK, Request
<1>2. /\ request.pc = "finalizer" /\ request.todo # {}
      /\ UNCHANGED <<current, queued, triggers, broker, deployment, faults>>
  BY DEF MutateTrigger, clusterVars
<1>3. NextTrigger \in Triggers
  BY <1>1, <1>2, EarliestIn DEF NextTrigger
<1>4. /\ wf \in Workflow /\ wf.finalizer = request.wf.finalizer
      /\ wf.listed = request.wf.listed \cup {NextTrigger}
  BY <1>1, <1>3 DEF Workflow, AddToTriggerList
<1>. HIDE DEF wf
<1>5. CASE /\ ~Remote(NextTrigger) \/ wf.finalizer
           /\ request' = [request EXCEPT !.pc = "trigger", !.wf = wf]
           /\ UNCHANGED objectVars
  <2>1. /\ request' \in Request /\ request'.pc = "trigger" /\ request'.todo = request.todo
        /\ request'.wf = wf
    BY <1>1, <1>4, <1>5 DEF Request, RequestSteps
  <2>2. GitOpsTypeOK'
    BY <1>2, <1>5, <2>1 DEF GitOpsInv, GitOpsTypeOK, objectVars
  <2>3. FinalizerInv'
    BY <1>2, <1>4, <1>5, <2>1 DEF GitOpsInv, FinalizerInv, Clean, NextTrigger, objectVars
  <2>4. ListInv'
    BY <1>2, <1>4, <1>5, <2>1 DEF GitOpsInv, ListInv, Clean, objectVars
  <2>5. FinalizerGuardsTriggers'
    BY <1>2, <1>5 DEF GitOpsInv, FinalizerGuardsTriggers, objectVars
  <2>. QED
    BY <2>2, <2>3, <2>4, <2>5 DEF GitOpsInv
<1>6. CASE /\ CanWrite /\ Put([workflow EXCEPT !.finalizer = TRUE])
           /\ request' = [request EXCEPT !.pc = "trigger", !.wf = Answered([wf EXCEPT !.finalizer = TRUE])]
  <2>. DEFINE answer == Answered([wf EXCEPT !.finalizer = TRUE])
  <2>1. /\ workflow' \in Workflow /\ workflow'.finalizer
        /\ workflow'.exists = workflow.exists /\ workflow'.deleting = workflow.deleting
        /\ workflow'.listed = workflow.listed
    BY <1>1, <1>6 DEF Put, Workflow
  <2>2. /\ cached' \in BOOLEAN /\ (cached' => cache' = workflow') /\ cache' = cache
    BY <1>6 DEF Put, GitOpsInv, ListInv
  <2>3. answer \in Workflow /\ answer.finalizer /\ workflow.listed \subseteq answer.listed
    BY <1>1, <1>4 DEF Answered, Workflow
  <2>. HIDE DEF answer
  <2>4. /\ request' \in Request /\ request'.pc = "trigger" /\ request'.todo = request.todo
        /\ request'.wf = answer
    BY <1>1, <1>6, <2>3 DEF Request, RequestSteps, answer
  <2>5. workflow.exists
    BY <1>6 DEF CanWrite
  <2>6. GitOpsTypeOK'
    BY <1>2, <2>1, <2>2, <2>4 DEF GitOpsInv, GitOpsTypeOK
  <2>7. FinalizerInv'
    BY <1>2, <2>1, <2>2, <2>3, <2>4, <2>5 DEF GitOpsInv, FinalizerInv, Clean
  <2>8. ListInv'
    BY <1>2, <2>1, <2>2, <2>3, <2>4 DEF GitOpsInv, ListInv, Clean
  <2>9. FinalizerGuardsTriggers'
    BY <1>2, <2>1, <2>5 DEF GitOpsInv, FinalizerGuardsTriggers
  <2>. QED
    BY <2>6, <2>7, <2>8, <2>9 DEF GitOpsInv
<1>. QED
  BY <1>5, <1>6 DEF MutateTrigger, wf

\* A trigger of another namespace is made under the finalizer.
LEMMA CreateTriggerStep ==
  ASSUME GitOpsInv, CreateTrigger
  PROVE  GitOpsInv'
<1>1. request \in Request /\ request.todo \in SUBSET Triggers /\ request.pc = "trigger"
  BY DEF GitOpsInv, GitOpsTypeOK, Request, CreateTrigger
<1>2. NextTrigger \in Triggers
  BY <1>1, EarliestIn DEF NextTrigger, GitOpsInv, FinalizerInv
<1>3. Remote(NextTrigger) => workflow.exists /\ workflow.finalizer
  BY <1>1 DEF GitOpsInv, FinalizerInv, Clean
<1>4. request' \in Request /\ request'.pc = "finalizer" /\ request'.wf = request.wf
  BY <1>1 DEF CreateTrigger, Request, RequestSteps
<1>5. GitOpsTypeOK'
  BY <1>2, <1>4 DEF CreateTrigger, GitOpsInv, GitOpsTypeOK, objectVars
<1>6. FinalizerInv'
  BY <1>1, <1>4 DEF CreateTrigger, GitOpsInv, FinalizerInv, Clean, objectVars
<1>7. ListInv'
  BY <1>1, <1>4 DEF CreateTrigger, GitOpsInv, ListInv, Clean, objectVars
<1>8. FinalizerGuardsTriggers'
  BY <1>3 DEF CreateTrigger, GitOpsInv, FinalizerGuardsTriggers, objectVars
<1>. QED
  BY <1>5, <1>6, <1>7, <1>8 DEF GitOpsInv

\* A clean-up has deleted what its copy no longer lists.
LEMMA DeleteTriggersStep ==
  ASSUME GitOpsInv, DeleteTriggers
  PROVE  GitOpsInv'
<1>1. request \in Request /\ request.wf \in Workflow /\ request.pc = "cleanup"
  BY DEF GitOpsInv, GitOpsTypeOK, Request, DeleteTriggers
<1>2. UNCHANGED <<objectVars, current, queued, broker, deployment, faults>>
  BY DEF DeleteTriggers
<1>3. /\ request' \in Request /\ request'.pc \in Clean /\ triggers' \subseteq triggers
      /\ request'.wf.finalizer = request.wf.finalizer
      /\ request'.wf.listed \cup request'.todo = request.wf.listed \cup request.todo
      /\ request'.pc = "removeFinalizer" => request'.wf.listed = {}
      /\ request'.todo \cap triggers' = {}
  <2>1. CASE /\ request.wf.listed = {} /\ UNCHANGED triggers
             /\ request' = [request EXCEPT !.pc = "removeFinalizer"]
    <3>1. request.todo \cap triggers = {}
      BY <1>1 DEF GitOpsInv, ListInv, Clean
    <3>2. request' \in Request /\ request'.pc = "removeFinalizer"
      BY <1>1, <2>1 DEF Request, RequestSteps
    <3>. QED
      BY <2>1, <3>1, <3>2 DEF Clean
  <2>2. ASSUME NEW t \in request.wf.listed, triggers' = triggers \ {t},
               request' = [request EXCEPT !.wf.listed = @ \ {t}, !.todo = @ \cup {t}]
        PROVE  /\ request' \in Request /\ request'.pc = "cleanup"
               /\ request'.wf.finalizer = request.wf.finalizer
               /\ request'.wf.listed \cup request'.todo = request.wf.listed \cup request.todo
               /\ request'.todo \cap triggers' = {}
    <3>1. request.todo \cap triggers = {}
      BY <1>1 DEF GitOpsInv, ListInv, Clean
    <3>2. /\ request' \in Request /\ request'.pc = "cleanup"
          /\ request'.wf.finalizer = request.wf.finalizer
          /\ request'.wf.listed = request.wf.listed \ {t}
          /\ request'.todo = request.todo \cup {t}
      BY <1>1, <2>2 DEF Request, Workflow
    <3>. QED
      BY <2>2, <3>1, <3>2
  <2>. QED
    BY <1>1, <2>1, <2>2 DEF DeleteTriggers, Goto, Clean
<1>4. GitOpsTypeOK'
  BY <1>2, <1>3 DEF GitOpsInv, GitOpsTypeOK, objectVars
<1>5. FinalizerInv'
  BY <1>1, <1>2, <1>3 DEF GitOpsInv, FinalizerInv, Clean, objectVars
<1>6. ListInv'
  BY <1>1, <1>2, <1>3 DEF GitOpsInv, ListInv, Clean, objectVars
<1>7. FinalizerGuardsTriggers'
  BY <1>2, <1>3 DEF GitOpsInv, FinalizerGuardsTriggers, objectVars
<1>. QED
  BY <1>4, <1>5, <1>6, <1>7 DEF GitOpsInv

\* The last step of a clean-up: no trigger the status lists is left.
LEMMA RemoveFinalizerStep ==
  ASSUME GitOpsInv, RemoveFinalizer
  PROVE  GitOpsInv'
<1>1. /\ workflow \in Workflow /\ request.pc = "removeFinalizer" /\ workflow.exists /\ current
      /\ workflow' = [workflow EXCEPT !.exists = FALSE, !.finalizer = FALSE]
      /\ request' = IdleRequest /\ UNCHANGED <<current, clusterVars, faults>>
  BY DEF RemoveFinalizer, Put, Return, CanWrite, GitOpsInv, GitOpsTypeOK
<1>2. /\ workflow' \in Workflow /\ ~workflow'.exists /\ ~workflow'.finalizer
      /\ workflow'.deleting = workflow.deleting /\ workflow'.listed = workflow.listed
  BY <1>1 DEF Workflow
<1>3. cached' \in BOOLEAN /\ (cached' => cache' = workflow') /\ cache' = cache /\ queued' \in BOOLEAN
  BY DEF RemoveFinalizer, Put, Return, GitOpsInv, GitOpsTypeOK, ListInv
<1>4. workflow.listed \cap triggers = {} /\ cache.deleting
  BY <1>1 DEF GitOpsInv, FinalizerInv, ListInv, Clean
<1>5. GitOpsTypeOK'
  BY <1>1, <1>2, <1>3, IdleOK DEF GitOpsInv, GitOpsTypeOK, clusterVars
<1>6. FinalizerInv'
  BY <1>1, <1>2, <1>3, <1>4, IdleOK DEF GitOpsInv, FinalizerInv, Clean
<1>7. ListInv'
  BY <1>1, <1>3, IdleOK DEF ListInv, Clean
<1>8. FinalizerGuardsTriggers'
  BY <1>1, <1>2, <1>4 DEF FinalizerGuardsTriggers, clusterVars
<1>. QED
  BY <1>5, <1>6, <1>7, <1>8 DEF GitOpsInv

\* A request may fail at any call.
LEMMA RequestErrorStep ==
  ASSUME GitOpsInv, RequestError
  PROVE  GitOpsInv'
<1>1. RestOK'
  BY FaultOK DEF RequestError, Return, GitOpsInv, GitOpsTypeOK, RestOK, clusterVars
<1>. QED
  BY <1>1, ReturnStep DEF RequestError, Return, clusterVars

-----------------------------------------------------------------------------
(* The watch, the user and failures.                                       *)

\* The watch brings the cache up to date.
LEMMA DeliverWorkflowStep ==
  ASSUME GitOpsInv, DeliverWorkflow
  PROVE  GitOpsInv'
<1>1. GitOpsTypeOK'
  BY DEF DeliverWorkflow, GitOpsInv, GitOpsTypeOK, clusterVars
<1>2. FinalizerInv'
  <2>1. /\ workflow' = workflow /\ cache' = workflow /\ request' = request
        /\ workflow.deleting \in BOOLEAN
    BY DEF DeliverWorkflow, GitOpsInv, GitOpsTypeOK, Workflow
  <2>2. request.pc \in Clean => workflow.deleting
    BY DEF GitOpsInv, FinalizerInv
  <2>. QED
    BY <2>1, <2>2 DEF GitOpsInv, FinalizerInv, NextTrigger
<1>3. ListInv'
  BY DEF DeliverWorkflow, GitOpsInv, ListInv, clusterVars
<1>4. FinalizerGuardsTriggers'
  BY DEF DeliverWorkflow, GitOpsInv, FinalizerGuardsTriggers, clusterVars
<1>. QED
  BY <1>1, <1>2, <1>3, <1>4 DEF GitOpsInv

\* An edit or a deletion of the user makes every copy in memory outdated.
LEMMA UserStep ==
  ASSUME GitOpsInv, UserEdits \/ UserDeletes
  PROVE  GitOpsInv'
<1>1. /\ workflow \in Workflow /\ workflow.exists
      /\ cached' = (cached /\ workflow' = workflow) /\ cache' = cache /\ current' = FALSE
      /\ UNCHANGED <<request, queued, clusterVars>> /\ faults' \in 0..MaxFaults
  BY FaultOK DEF UserEdits, UserDeletes, Put, GitOpsInv, GitOpsTypeOK
<1>2. /\ workflow' \in Workflow
      /\ workflow'.finalizer = workflow.finalizer /\ workflow'.listed = workflow.listed
      /\ workflow.deleting => workflow'.deleting
      /\ workflow'.exists \/ ~workflow.finalizer
  <2>1. CASE \E events \in EventSpecs : workflow' = [workflow EXCEPT !.events = events]
    BY <1>1, <2>1 DEF Workflow
  <2>2. CASE workflow' = [workflow EXCEPT !.deleting = TRUE, !.exists = workflow.finalizer]
    BY <1>1, <2>2 DEF Workflow
  <2>. QED
    BY <2>1, <2>2 DEF UserEdits, UserDeletes, Put
<1>3. cached' \in BOOLEAN /\ (cached' => cache' = workflow')
  BY <1>1 DEF GitOpsInv, ListInv
<1>4. GitOpsTypeOK'
  BY <1>1, <1>2, <1>3 DEF GitOpsInv, GitOpsTypeOK, clusterVars
<1>5. FinalizerInv'
  BY <1>1, <1>2 DEF GitOpsInv, FinalizerInv, NextTrigger
<1>6. ListInv'
  BY <1>1, <1>3 DEF GitOpsInv, ListInv, clusterVars
<1>7. FinalizerGuardsTriggers'
  BY <1>1, <1>2 DEF GitOpsInv, FinalizerGuardsTriggers, clusterVars
<1>. QED
  BY <1>4, <1>5, <1>6, <1>7 DEF GitOpsInv

\* A new process reads the workflow from the server.
LEMMA CrashStep ==
  ASSUME GitOpsInv, Crash
  PROVE  GitOpsInv'
<1>1. /\ request' = IdleRequest /\ cache' = workflow /\ workflow' = workflow
      /\ cached' = TRUE /\ queued' = workflow.exists
      /\ UNCHANGED <<current, clusterVars>> /\ faults' \in 0..MaxFaults
  BY FaultOK DEF Crash, GitOpsInv
<1>2. workflow.exists \in BOOLEAN
  BY DEF GitOpsInv, GitOpsTypeOK, Workflow
<1>3. GitOpsTypeOK'
  BY <1>1, <1>2, IdleOK DEF GitOpsInv, GitOpsTypeOK, clusterVars
<1>4. FinalizerInv'
  BY <1>1, IdleOK DEF FinalizerInv, Clean
<1>5. ListInv'
  BY <1>1, IdleOK DEF ListInv, Clean
<1>6. FinalizerGuardsTriggers'
  BY <1>1 DEF GitOpsInv, FinalizerGuardsTriggers, clusterVars
<1>. QED
  BY <1>3, <1>4, <1>5, <1>6 DEF GitOpsInv

\* Knative, the Deployment and the garbage collector.
LEMMA EnvironmentStep ==
  ASSUME GitOpsInv,
         \/ BrokerReady \/ BrokerLost \/ TriggerLost
         \/ DeploymentUp \/ DeploymentTrouble \/ CollectGarbage
  PROVE  GitOpsInv'
<1>1. UNCHANGED <<objectVars, current, request>> /\ triggers' \subseteq triggers
  BY DEF BrokerReady, BrokerLost, TriggerLost, DeploymentUp, DeploymentTrouble, CollectGarbage
<1>2. RestOK'
  BY FaultOK DEF BrokerReady, BrokerLost, TriggerLost, DeploymentUp, DeploymentTrouble, CollectGarbage,
     GitOpsInv, GitOpsTypeOK, RestOK, Health
<1>. QED
  BY <1>1, <1>2, ClusterStep

-----------------------------------------------------------------------------
(* The invariant.                                                          *)

\* The workflow begins with no trigger, no finalizer and an empty list.
LEMMA InitHolds == Init => GitOpsInv
<1>. SUFFICES ASSUME Init PROVE GitOpsInv
  OBVIOUS
<1>1. PICK events \in EventSpecs, conds \in InitialStatuses :
        workflow = [NoWorkflow EXCEPT !.exists = TRUE, !.events = events, !.conds = conds]
  BY DEF Init
<1>2. conds \in ConditionMap /\ 0 \in 0..MaxFaults
  BY GitOpsAssumption DEF GitOpsAssumption
<1>3. workflow \in Workflow /\ workflow.exists
  BY <1>1, <1>2, IdleOK DEF Workflow
<1>4. ~workflow.finalizer /\ cache = workflow /\ request = IdleRequest
      /\ ~workflow.deleting
  BY <1>1, IdleOK DEF Init, NoWorkflow
<1>5. GitOpsTypeOK
  BY <1>2, <1>3, IdleOK DEF Init, GitOpsTypeOK, Health
<1>6. FinalizerInv /\ ListInv /\ FinalizerGuardsTriggers
  BY <1>3, <1>4, IdleOK DEF Init, FinalizerInv, ListInv, FinalizerGuardsTriggers, Clean
<1>. QED
  BY <1>5, <1>6 DEF GitOpsInv

\* A step of something else changes nothing.
LEMMA StutterHolds ==
  ASSUME GitOpsInv, UNCHANGED gitOpsVars
  PROVE  GitOpsInv'
<1>1. RestOK'
  BY DEF gitOpsVars, clusterVars, GitOpsInv, GitOpsTypeOK, RestOK
<1>. QED
  BY <1>1, ClusterStep DEF gitOpsVars, clusterVars

\* Every step keeps the invariant, ...
LEMMA NextHolds ==
  ASSUME GitOpsInv, Next
  PROVE  GitOpsInv'
BY StartStep, WriteStatusStep, EnsureDeploymentStep, EnsureFailsStep, WriteFailureStep,
   ValidateBrokersStep, AfterTriggersStep, SyncDeploymentStatusStep, MutateTriggerStep,
   CreateTriggerStep, DeleteTriggersStep, RemoveFinalizerStep, RequestErrorStep,
   DeliverWorkflowStep, UserStep, CrashStep, EnvironmentStep
   DEF Next, Controller

\* ... so that it holds throughout.
LEMMA GitOpsInvariant == Spec => []GitOpsInv
<1>1. GitOpsInv /\ [Next]_gitOpsVars => GitOpsInv'
  BY NextHolds, StutterHolds
<1>. QED
  BY <1>1, InitHolds, PTL DEF Spec

\* Every variable keeps its type, whatever the events, the faults and the
\* status an earlier profile has left.
THEOREM GitOpsTypeCorrect == Spec => []GitOpsTypeOK
<1>1. GitOpsInv => GitOpsTypeOK
  BY DEF GitOpsInv
<1>. QED
  BY <1>1, GitOpsInvariant, PTL

\* No trigger is ever made in another namespace without the finalizer that
\* has it cleaned up, and the clean-up leaves none that the status lists
\* (ensureObject, setWorkflowFinalizer, cleanupTriggers).
THEOREM FinalizerGuardsTriggersTheorem == Spec => []FinalizerGuardsTriggers
<1>1. GitOpsInv => FinalizerGuardsTriggers
  BY DEF GitOpsInv
<1>. QED
  BY <1>1, GitOpsInvariant, PTL

\* No step takes a trigger off the list in the status
\* (addToSonataFlowTriggerList, PerformStatusUpdate).
THEOREM ListedStaysListedTheorem == Spec => ListedStaysListed
<1>1. GitOpsInv /\ [Next]_gitOpsVars => [workflow.listed \subseteq workflow'.listed]_gitOpsVars
  <2>. SUFFICES ASSUME GitOpsInv, Next
                PROVE  workflow.listed \subseteq workflow'.listed
    OBVIOUS
  <2>1. workflow \in Workflow
    BY DEF GitOpsInv, GitOpsTypeOK
  <2>2. CASE WriteStatus \/ WriteFailure
    BY <2>2, PutStatusOK DEF WriteStatus, WriteFailure, Clean, objectVars
  <2>3. CASE MutateTrigger \/ RemoveFinalizer \/ UserEdits \/ UserDeletes
    BY <2>1, <2>3 DEF MutateTrigger, RemoveFinalizer, UserEdits, UserDeletes, Put, Workflow, objectVars
  <2>4. CASE UNCHANGED workflow
    BY <2>4
  <2>. QED
    BY <2>2, <2>3, <2>4 DEF Next, Controller, objectVars, Start, EnsureDeployment, EnsureFails,
       ValidateBrokers, AfterTriggers, CreateTrigger, SyncDeploymentStatus, DeleteTriggers, RequestError,
       DeliverWorkflow, BrokerReady, BrokerLost, TriggerLost, DeploymentUp, DeploymentTrouble,
       CollectGarbage, Crash
<1>. QED
  BY <1>1, GitOpsInvariant, PTL DEF Spec, ListedStaysListed
=============================================================================
