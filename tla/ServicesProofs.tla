--------------------------- MODULE ServicesProofs ---------------------------
(***************************************************************************)
(* What TLAPS proves of PlatformServices: every variable keeps its type,   *)
(* and a platform does not go without its triggers in other namespaces,    *)
(* for any services, brokers, specs, faults and interleavings.             *)
(***************************************************************************)
EXTENDS PlatformServices, FiniteSetTheorems, WellFoundedInduction, TLAPS

-----------------------------------------------------------------------------
(* The inductive invariant.                                                *)

\* The steps of a request that are about one service.
ServiceSteps == {"deployment", "broker", "finalizer", "trigger", "status", "sink"}

\* The steps of a request that finds its platform deleted.
CleanupSteps == {"cleanup", "removeFinalizer"}

\* None of the triggers is in another namespace.
NoneRemote(set) == \A t \in set : ~Remote(t)

\* A request that is about to create a trigger in another namespace has seen
\* the finalizer; a clean-up has deleted what it no longer has to, and if its
\* copy is still the server's it knows all that is listed.
RequestInv ==
  /\ request.pc \in ServiceSteps => request.at \in DOMAIN Order
  /\ request.pc = "trigger" =>
       /\ request.todo # {}
       /\ request.finalizer \/ NoneRemote(request.todo)
  /\ request.pc \in CleanupSteps =>
       /\ request.todo \cap triggers = {}
       /\ current => request.listed = platform.listed
  /\ request.pc = "removeFinalizer" => request.todo = request.listed

\* A finalizer that a request has seen stays for as long as the request runs,
\* and keeps the platform.
SeenFinalizerStays ==
  /\ request.finalizer => platform.finalizer
  /\ platform.finalizer => platform.exists

\* The invariant.
ServicesInv ==
  /\ ServicesTypeOK
  /\ RequestInv
  /\ SeenFinalizerStays
  /\ PlatformFinalizerGuardsTriggers

-----------------------------------------------------------------------------
(* Helpers.                                                                *)

\* There are finitely many services, and Order has places for them.
LEMMA ServiceCount ==
  /\ Cardinality(Services) \in Nat
  /\ DOMAIN Order = 1..Cardinality(Services)
  /\ \A i \in DOMAIN Order : i \in Nat /\ i \in 0..(Cardinality(Services) + 1) /\ Order[i] \in Services
<1>1. Cardinality(Services) \in Nat
  BY FS_CardinalityType, ServicesAssumption DEF ServicesAssumption
<1>. QED
  BY <1>1, ServicesAssumption DEF ServicesAssumption

\* A set of numbers that is not empty has a smallest one.
LEMMA Smallest ==
  ASSUME NEW S \in SUBSET Nat, S # {}
  PROVE  \E n \in S : \A k \in S : n <= k
<1>. DEFINE R == {ss \in Nat \X Nat : ss[1] < ss[2]}
<1>1. IsWellFoundedOn(R, Nat)
  BY NatLessThanWellFounded DEF OpToRel
<1>. HIDE DEF R
<1>2. PICK n \in S : \A k \in S : <<k, n>> \notin R
  BY <1>1, WFMin
<1>3. ASSUME NEW k \in S
      PROVE  n <= k
  <2>1. n \in Nat /\ k \in Nat /\ <<k, n>> \in Nat \X Nat
    OBVIOUS
  <2>2. ~(<<k, n>>[1] < <<k, n>>[2])
    BY <1>2, <2>1 DEF R
  <2>. QED
    BY <2>1, <2>2
<1>. QED
  BY <1>3

\* NextService goes to a service of the spec or to the end of the action, and
\* changes nothing else of the request.
LEMMA NextServiceOK ==
  ASSUME NEW req \in ServiceRequest, NEW i
  PROVE  /\ NextService(req, i) \in ServiceRequest
         /\ NextService(req, i).pc \in {"deployment", "writeSpec"}
         /\ NextService(req, i).pc = "deployment" => NextService(req, i).at \in DOMAIN Order
         /\ NextService(req, i).finalizer = req.finalizer
<1>. DEFINE later == {j \in DOMAIN Order : j >= i /\ Order[j] \in req.spec.services}
            first == CHOOSE j \in later : \A k \in later : j <= k
            ended == [req EXCEPT !.pc = "writeSpec", !.at = 0, !.todo = {}]
            found == [req EXCEPT !.pc = "deployment", !.todo = {}, !.at = first]
<1>1. NextService(req, i) = IF later = {} THEN ended ELSE found
  BY DEF NextService
<1>2. ASSUME later # {}
      PROVE  first \in DOMAIN Order /\ first \in 0..(Cardinality(Services) + 1)
  <2>1. later \in SUBSET Nat
    BY ServiceCount
  <2>2. first \in later
    BY <1>2, <2>1, Smallest
  <2>. QED
    BY <2>2, ServiceCount
<1>3. 0 \in 0..(Cardinality(Services) + 1)
  BY ServiceCount
<1>. HIDE DEF later, first
<1>4. CASE later = {}
  BY <1>1, <1>3, <1>4 DEF ServiceRequest, RequestSteps
<1>5. CASE later # {}
  BY <1>1, <1>2, <1>5 DEF ServiceRequest, RequestSteps
<1>. QED
  BY <1>4, <1>5

\* A request that has ended is a request.
LEMMA IdleOK ==
  ASSUME ServicesTypeOK
  PROVE  IdleRequest \in ServiceRequest /\ IdleRequest.pc = "idle" /\ ~IdleRequest.finalizer
<1>1. (CHOOSE s \in Specs : TRUE) \in Specs
  BY DEF ServicesTypeOK, PlatformObject
<1>2. 0 \in 0..(Cardinality(Services) + 1)
  BY ServiceCount
<1>. QED
  BY <1>1, <1>2 DEF IdleRequest, ServiceRequest, RequestSteps

\* What GenerateKnativeResources asks for are triggers.
LEMMA WantedOK ==
  ASSUME NEW spec \in Specs, NEW s \in Services
  PROVE  Wanted(spec, s) \subseteq Triggers
<1>1. spec \in PlatformSpec
  BY ServicesAssumption DEF ServicesAssumption
<1>2. CASE s \in spec.services /\ spec.source[s] # "none"
  <2>1. spec.source[s] \in Namespaces
    BY <1>1, <1>2 DEF PlatformSpec
  <2>2. [svc : {s}, n : 1..TriggersOf[s], ns : {spec.source[s]}]
          \subseteq [svc : {s}, n : 1..TriggersOf[s], ns : Namespaces]
    BY <2>1
  <2>. QED
    BY <1>2, <2>2 DEF Wanted, Triggers
<1>3. CASE ~(s \in spec.services /\ spec.source[s] # "none")
  BY <1>3 DEF Wanted
<1>. QED
  BY <1>2, <1>3

\* The trigger CreateTrigger takes of those still to be created.
Lowest(todo) == CHOOSE t \in todo : \A u \in todo : t.n <= u.n

\* It is one of them.
LEMMA LowestIn ==
  ASSUME NEW todo \in SUBSET Triggers, todo # {}
  PROVE  Lowest(todo) \in todo
<1>. DEFINE numbers == {t.n : t \in todo}
<1>1. ASSUME NEW t \in Triggers
      PROVE  t.n \in Nat
  BY ServicesAssumption DEF Triggers, ServicesAssumption
<1>2. numbers \in SUBSET Nat /\ numbers # {}
  BY <1>1
<1>3. \E m \in numbers : \A k \in numbers : m <= k
  BY <1>2, Smallest
<1>. QED
  BY <1>3 DEF Lowest

\* A fault keeps within the budget.
LEMMA FaultOK ==
  ASSUME ServicesTypeOK, NEW kind, Fault(kind)
  PROVE  faults' \in 0..MaxFaults
  BY ServicesAssumption DEF ServicesTypeOK, Fault, ServicesAssumption

\* What a write does to the variables of the server: a copy is current
\* afterwards only if it was, and nothing changed.
LEMMA PutOK ==
  ASSUME ServicesTypeOK, NEW new \in PlatformObject, Put(new)
  PROVE  /\ platform' = new
         /\ cached' \in BOOLEAN /\ current' \in BOOLEAN /\ queued' \in BOOLEAN
         /\ current' => current /\ platform' = platform
  BY ServicesAssumption DEF ServicesTypeOK, Put, ServicesAssumption

\* A step of a request that changes neither the platform nor the triggers, and
\* does not go on to create or delete one.
LEMMA QuietStep ==
  ASSUME ServicesInv, ServicesTypeOK', platform' = platform, triggers' = triggers,
         request'.pc \notin {"trigger"} \cup CleanupSteps,
         request'.pc \in ServiceSteps => request'.at \in DOMAIN Order,
         request'.finalizer => request.finalizer
  PROVE  ServicesInv'
<1>1. RequestInv'
  BY DEF RequestInv, CleanupSteps
<1>2. SeenFinalizerStays' /\ PlatformFinalizerGuardsTriggers'
  BY DEF ServicesInv, SeenFinalizerStays, PlatformFinalizerGuardsTriggers
<1>. QED
  BY <1>1, <1>2 DEF ServicesInv

\* The end of a request is one.
LEMMA EndOfRequest ==
  ASSUME ServicesInv, request' = IdleRequest, platform' = platform,
         triggers' = triggers, ServicesTypeOK'
  PROVE  ServicesInv'
<1>1. request'.pc = "idle" /\ ~request'.finalizer
  BY IdleOK DEF ServicesInv
<1>. QED
  BY <1>1, QuietStep DEF ServiceSteps, CleanupSteps

-----------------------------------------------------------------------------
(* The steps of the controller keep the invariant.                         *)

\* A request starts with what the server has.
LEMMA StartStep ==
  ASSUME ServicesInv, Start
  PROVE  ServicesInv'
<1>1. UNCHANGED <<platform, cached, triggers, broker, deployment, binding, dropped, faults>>
  BY DEF Start, knativeVars
<1>2. CASE platform.exists
  <2>1. PICK pc \in {"cleanup", "defaultsStatus"} :
          request' = [IdleRequest EXCEPT !.pc = pc, !.spec = platform.spec,
                                         !.finalizer = platform.finalizer, !.listed = platform.listed]
    BY <1>2 DEF Start
  <2>2. IdleRequest \in ServiceRequest /\ IdleRequest.todo = {}
    BY IdleOK DEF ServicesInv, IdleRequest
  <2>3. platform \in PlatformObject
    BY DEF ServicesInv, ServicesTypeOK
  <2>4. /\ request' \in ServiceRequest /\ request'.pc \in {"cleanup", "defaultsStatus"}
        /\ request'.todo = {} /\ request'.finalizer = platform.finalizer
        /\ request'.listed = platform.listed
    BY <2>1, <2>2, <2>3 DEF ServiceRequest, RequestSteps, PlatformObject
  <2>5. ServicesTypeOK'
    BY <1>1, <1>2, <2>4 DEF Start, ServicesInv, ServicesTypeOK
  <2>6. RequestInv'
    BY <1>1, <2>4 DEF RequestInv, ServiceSteps, CleanupSteps
  <2>7. SeenFinalizerStays' /\ PlatformFinalizerGuardsTriggers'
    BY <1>1, <2>4 DEF ServicesInv, SeenFinalizerStays, PlatformFinalizerGuardsTriggers
  <2>. QED
    BY <2>5, <2>6, <2>7 DEF ServicesInv
<1>3. CASE ~platform.exists
  <2>1. UNCHANGED <<request, current>> /\ queued' = FALSE
    BY <1>3 DEF Start
  <2>2. ServicesTypeOK' /\ RequestInv'
    BY <1>1, <2>1 DEF ServicesInv, ServicesTypeOK, RequestInv
  <2>3. SeenFinalizerStays' /\ PlatformFinalizerGuardsTriggers'
    BY <1>1, <2>1 DEF ServicesInv, SeenFinalizerStays, PlatformFinalizerGuardsTriggers
  <2>. QED
    BY <2>2, <2>3 DEF ServicesInv
<1>. QED
  BY <1>2, <1>3

\* A write of the whole spec or status while services are set up: it needs
\* the platform, and leaves the finalizer alone.
LEMMA WriteStep ==
  ASSUME ServicesInv, NEW new \in PlatformObject,
         CanWrite, Put(new), new.exists = platform.exists, new.finalizer = platform.finalizer,
         request' \in ServiceRequest,
         request'.pc \in RequestSteps \ ({"trigger"} \cup CleanupSteps),
         request'.pc \in ServiceSteps => request'.at \in DOMAIN Order,
         request'.finalizer => request.finalizer,
         UNCHANGED <<knativeVars, dropped, faults>>
  PROVE  ServicesInv'
<1>1. /\ platform' = new
      /\ cached' \in BOOLEAN /\ current' \in BOOLEAN /\ queued' \in BOOLEAN
  BY PutOK DEF ServicesInv
<1>2. ServicesTypeOK'
  BY <1>1 DEF ServicesInv, ServicesTypeOK, knativeVars
<1>3. RequestInv'
  BY DEF RequestInv, CleanupSteps
<1>4. SeenFinalizerStays'
  BY <1>1 DEF ServicesInv, SeenFinalizerStays
<1>5. PlatformFinalizerGuardsTriggers'
  BY <1>1 DEF ServicesInv, PlatformFinalizerGuardsTriggers, CanWrite, knativeVars
<1>. QED
  BY <1>2, <1>3, <1>4, <1>5 DEF ServicesInv

\* The objects PutStatus and PutSpec write, and the requests that follow.
LEMMA Written ==
  ASSUME ServicesInv
  PROVE  /\ [platform EXCEPT !.listed = request.listed] \in PlatformObject
         /\ [platform EXCEPT !.spec = request.spec] \in PlatformObject
         /\ \A pc \in RequestSteps : [request EXCEPT !.pc = pc] \in ServiceRequest
  BY DEF ServicesInv, ServicesTypeOK, PlatformObject, ServiceRequest

\* The writes of the defaults, of the triggers of a service and of the end of
\* the action.
LEMMA WritesStep ==
  ASSUME ServicesInv, DefaultsStatus \/ DefaultsSpec \/ UpdateTriggerList \/ WriteSpec \/ WriteStatus
  PROVE  ServicesInv'
<1>. DEFINE status == [platform EXCEPT !.listed = request.listed]
            spec == [platform EXCEPT !.spec = request.spec]
<1>1. platform \in PlatformObject /\ request \in ServiceRequest
  BY DEF ServicesInv, ServicesTypeOK
<1>2. /\ status \in PlatformObject
      /\ status.exists = platform.exists /\ status.finalizer = platform.finalizer
      /\ spec \in PlatformObject
      /\ spec.exists = platform.exists /\ spec.finalizer = platform.finalizer
  BY <1>1, Written DEF PlatformObject
<1>3. \A pc \in RequestSteps :
        LET next == [request EXCEPT !.pc = pc]
        IN /\ next \in ServiceRequest /\ next.pc = pc /\ next.at = request.at
           /\ next.finalizer = request.finalizer
  BY <1>1, Written DEF ServiceRequest
<1>. HIDE DEF status, spec
<1>4. CASE DefaultsStatus
  <2>1. /\ CanWrite /\ Put(status) /\ request' = [request EXCEPT !.pc = "defaultsSpec"]
        /\ UNCHANGED <<knativeVars, dropped, faults>>
    BY <1>4 DEF DefaultsStatus, PutStatus, status
  <2>2. /\ request' \in ServiceRequest /\ request'.pc = "defaultsSpec"
        /\ request'.finalizer = request.finalizer
    BY <1>3, <2>1 DEF RequestSteps
  <2>. QED
    BY <1>2, <2>1, <2>2, WriteStep DEF RequestSteps, ServiceSteps, CleanupSteps
<1>5. CASE DefaultsSpec
  <2>1. /\ CanWrite /\ Put(spec) /\ request' = NextService(request, 1)
        /\ UNCHANGED <<knativeVars, dropped, faults>>
    BY <1>5 DEF DefaultsSpec, PutSpec, spec
  <2>2. /\ request' \in ServiceRequest /\ request'.pc \in {"deployment", "writeSpec"}
        /\ request'.pc = "deployment" => request'.at \in DOMAIN Order
        /\ request'.finalizer = request.finalizer
    BY <1>1, <2>1, NextServiceOK
  <2>. QED
    BY <1>2, <2>1, <2>2, WriteStep DEF RequestSteps, ServiceSteps, CleanupSteps
<1>6. CASE UpdateTriggerList
  <2>1. /\ CanWrite /\ Put(status) /\ request' = [request EXCEPT !.pc = "sink"]
        /\ request.at \in DOMAIN Order
        /\ UNCHANGED <<knativeVars, dropped, faults>>
    BY <1>6 DEF UpdateTriggerList, PutStatus, status, ServicesInv, RequestInv, ServiceSteps
  <2>2. /\ request' \in ServiceRequest /\ request'.pc = "sink" /\ request'.at = request.at
        /\ request'.finalizer = request.finalizer
    BY <1>3, <2>1 DEF RequestSteps
  <2>. QED
    BY <1>2, <2>1, <2>2, WriteStep DEF RequestSteps, ServiceSteps, CleanupSteps
<1>7. CASE WriteSpec
  <2>1. /\ CanWrite /\ Put(spec) /\ request' = [request EXCEPT !.pc = "writeStatus"]
        /\ UNCHANGED <<knativeVars, dropped, faults>>
    BY <1>7 DEF WriteSpec, PutSpec, spec
  <2>2. /\ request' \in ServiceRequest /\ request'.pc = "writeStatus"
        /\ request'.finalizer = request.finalizer
    BY <1>3, <2>1 DEF RequestSteps
  <2>. QED
    BY <1>2, <2>1, <2>2, WriteStep DEF RequestSteps, ServiceSteps, CleanupSteps
<1>8. CASE WriteStatus
  <2>1. /\ CanWrite /\ Put(status) /\ request' = IdleRequest
        /\ UNCHANGED <<knativeVars, dropped, faults>>
    BY <1>8 DEF WriteStatus, PutStatus, status
  <2>2. request' \in ServiceRequest /\ request'.pc = "idle" /\ ~request'.finalizer
    BY <2>1, IdleOK DEF ServicesInv
  <2>. QED
    BY <1>2, <2>1, <2>2, WriteStep DEF RequestSteps, ServiceSteps, CleanupSteps
<1>. QED
  BY <1>4, <1>5, <1>6, <1>7, <1>8

\* The service a request is at.
LEMMA ServiceAt ==
  ASSUME ServicesInv, request.pc \in ServiceSteps
  PROVE  /\ request \in ServiceRequest /\ request.at \in DOMAIN Order /\ request.at \in Nat
         /\ svc \in Services
  BY ServiceCount DEF ServicesInv, ServicesTypeOK, RequestInv, svc

\* The Deployment of a service is ensured, or skipped.
LEMMA DeploymentStep ==
  ASSUME ServicesInv, EnsureDeployment \/ SkipDeployment
  PROVE  ServicesInv'
<1>1. request \in ServiceRequest /\ request.at \in DOMAIN Order /\ svc \in Services
  BY ServiceAt DEF EnsureDeployment, SkipDeployment, ServiceSteps
<1>2. request' = [request EXCEPT !.pc = "broker"] /\ UNCHANGED <<platform, cached, current, triggers, broker, binding>>
  BY DEF EnsureDeployment, SkipDeployment, serverVars, knativeVars
<1>3. /\ request' \in ServiceRequest /\ request'.pc = "broker" /\ request'.at = request.at
      /\ request'.finalizer = request.finalizer
  BY <1>1, <1>2 DEF ServiceRequest, RequestSteps
<1>4. /\ deployment' \in [Services -> {"none", "zero", "up"}]
      /\ queued' \in BOOLEAN /\ dropped' \in BOOLEAN /\ faults' \in 0..MaxFaults
  <2>1. CASE EnsureDeployment
    <3>1. UNCHANGED <<dropped, faults>> /\ queued' \in BOOLEAN
      BY <2>1 DEF EnsureDeployment, ServicesInv, ServicesTypeOK
    <3>2. deployment' \in [Services -> {"none", "zero", "up"}]
      BY <1>1, <2>1 DEF EnsureDeployment, ServicesInv, ServicesTypeOK
    <3>. QED
      BY <3>1, <3>2 DEF ServicesInv, ServicesTypeOK
  <2>2. CASE SkipDeployment
    BY <2>2, FaultOK DEF SkipDeployment, ServicesInv, ServicesTypeOK, serverVars, knativeVars
  <2>. QED
    BY <2>1, <2>2
<1>5. ServicesTypeOK'
  BY <1>2, <1>3, <1>4 DEF ServicesInv, ServicesTypeOK
<1>. QED
  BY <1>1, <1>2, <1>3, <1>5, QuietStep DEF CleanupSteps

\* The broker is looked at, and the triggers to be created are known.
LEMMA ValidateBrokerStep ==
  ASSUME ServicesInv, ValidateBroker
  PROVE  ServicesInv'
<1>1. request \in ServiceRequest /\ request.at \in DOMAIN Order /\ svc \in Services
  BY ServiceAt DEF ValidateBroker, ServiceSteps
<1>2. UNCHANGED <<platform, cached, current, triggers, broker, deployment, binding, dropped, faults>>
  BY DEF ValidateBroker, knativeVars
<1>3. CASE request' = [request EXCEPT !.pc = "status"] /\ UNCHANGED queued
  <2>1. /\ request' \in ServiceRequest /\ request'.pc = "status" /\ request'.at = request.at
        /\ request'.finalizer = request.finalizer
    BY <1>1, <1>3 DEF ServiceRequest, RequestSteps
  <2>2. ServicesTypeOK'
    BY <1>2, <1>3, <2>1 DEF ServicesInv, ServicesTypeOK
  <2>. QED
    BY <1>1, <1>2, <2>1, <2>2, QuietStep DEF CleanupSteps
<1>4. CASE request' = [request EXCEPT !.pc = "finalizer", !.todo = Wanted(request.spec, svc)] /\ UNCHANGED queued
  <2>1. Wanted(request.spec, svc) \subseteq Triggers
    BY <1>1, WantedOK DEF ServiceRequest
  <2>2. /\ request' \in ServiceRequest /\ request'.pc = "finalizer" /\ request'.at = request.at
        /\ request'.finalizer = request.finalizer
    BY <1>1, <1>4, <2>1 DEF ServiceRequest, RequestSteps
  <2>3. ServicesTypeOK'
    BY <1>2, <1>4, <2>2 DEF ServicesInv, ServicesTypeOK
  <2>. QED
    BY <1>1, <1>2, <2>2, <2>3, QuietStep DEF CleanupSteps
<1>5. CASE BrokerNotReady
  <2>1. request' = IdleRequest /\ request' \in ServiceRequest /\ queued' \in BOOLEAN
    BY <1>5, IdleOK DEF BrokerNotReady, Return, ServicesInv, ServicesTypeOK
  <2>2. ServicesTypeOK'
    BY <1>2, <2>1 DEF ServicesInv, ServicesTypeOK
  <2>. QED
    BY <1>2, <2>1, <2>2, EndOfRequest
<1>. QED
  BY <1>3, <1>4, <1>5 DEF ValidateBroker

\* The finalizer is there before a trigger in another namespace is.
LEMMA SetFinalizerStep ==
  ASSUME ServicesInv, SetFinalizer
  PROVE  ServicesInv'
<1>1. request \in ServiceRequest /\ request.at \in DOMAIN Order /\ request.pc = "finalizer"
  BY ServiceAt DEF SetFinalizer, ServiceSteps
<1>2. UNCHANGED <<current, triggers, broker, deployment, binding, dropped, faults>>
  BY DEF SetFinalizer, knativeVars, serverVars
<1>3. CASE request.todo = {} /\ request' = [request EXCEPT !.pc = "status"] /\ UNCHANGED serverVars
  <2>1. /\ request' \in ServiceRequest /\ request'.pc = "status" /\ request'.at = request.at
        /\ request'.finalizer = request.finalizer
    BY <1>1, <1>3 DEF ServiceRequest, RequestSteps
  <2>2. ServicesTypeOK' /\ UNCHANGED platform
    BY <1>2, <1>3, <2>1 DEF ServicesInv, ServicesTypeOK, serverVars
  <2>. QED
    BY <1>1, <1>2, <2>1, <2>2, QuietStep DEF CleanupSteps
<1>4. CASE /\ request.todo # {}
           /\ NoneRemote(request.todo) \/ request.finalizer
           /\ request' = [request EXCEPT !.pc = "trigger"] /\ UNCHANGED serverVars
  <2>1. /\ request' \in ServiceRequest /\ request'.pc = "trigger" /\ request'.at = request.at
        /\ request'.finalizer = request.finalizer /\ request'.todo = request.todo
    BY <1>1, <1>4 DEF ServiceRequest, RequestSteps
  <2>2. ServicesTypeOK' /\ UNCHANGED platform
    BY <1>2, <1>4, <2>1 DEF ServicesInv, ServicesTypeOK, serverVars
  <2>3. RequestInv'
    BY <1>1, <1>4, <2>1 DEF RequestInv, CleanupSteps, NoneRemote, Remote
  <2>4. SeenFinalizerStays' /\ PlatformFinalizerGuardsTriggers'
    BY <1>2, <2>1, <2>2 DEF ServicesInv, SeenFinalizerStays, PlatformFinalizerGuardsTriggers
  <2>. QED
    BY <2>2, <2>3, <2>4 DEF ServicesInv
<1>5. CASE /\ request.todo # {} /\ platform.exists /\ current
           /\ platform' = [platform EXCEPT !.finalizer = TRUE, !.spec = request.spec]
           /\ cached' = ~Lagging /\ queued' = (queued \/ ~Lagging)
           /\ request' = [request EXCEPT !.pc = "trigger", !.finalizer = TRUE, !.listed = platform.listed]
  <2>1. platform \in PlatformObject
    BY DEF ServicesInv, ServicesTypeOK
  <2>2. platform' \in PlatformObject /\ platform'.exists /\ platform'.finalizer
    BY <1>1, <1>5, <2>1 DEF PlatformObject, ServiceRequest
  <2>3. /\ request' \in ServiceRequest /\ request'.pc = "trigger" /\ request'.at = request.at
        /\ request'.finalizer /\ request'.todo = request.todo
    BY <1>1, <1>5, <2>1 DEF ServiceRequest, RequestSteps, PlatformObject
  <2>4. ServicesTypeOK'
    BY <1>2, <1>5, <2>2, <2>3, ServicesAssumption DEF ServicesInv, ServicesTypeOK, ServicesAssumption
  <2>5. RequestInv'
    BY <1>1, <1>5, <2>3 DEF RequestInv, CleanupSteps
  <2>6. SeenFinalizerStays' /\ PlatformFinalizerGuardsTriggers'
    BY <2>2 DEF SeenFinalizerStays, PlatformFinalizerGuardsTriggers
  <2>. QED
    BY <2>4, <2>5, <2>6 DEF ServicesInv
<1>. QED
  BY <1>3, <1>4, <1>5 DEF SetFinalizer, NoneRemote

\* A trigger in another namespace is created for a platform that is there and
\* has the finalizer.
LEMMA CreateTriggerStep ==
  ASSUME ServicesInv, CreateTrigger
  PROVE  ServicesInv'
<1>. DEFINE t == Lowest(request.todo)
<1>1. /\ request \in ServiceRequest /\ request.at \in DOMAIN Order /\ request.pc = "trigger"
      /\ request.todo # {}
      /\ request.finalizer \/ NoneRemote(request.todo)
  BY ServiceAt DEF CreateTrigger, ServiceSteps, ServicesInv, RequestInv
<1>2. t \in request.todo /\ t \in Triggers
  <2>1. request.todo \in SUBSET Triggers
    BY <1>1 DEF ServiceRequest
  <2>. QED
    BY <1>1, <2>1, LowestIn
<1>3. Remote(t) => platform.exists /\ platform.finalizer
  BY <1>1, <1>2 DEF ServicesInv, SeenFinalizerStays, NoneRemote
<1>. HIDE DEF t
<1>4. /\ triggers' = triggers \cup {t} /\ queued' \in BOOLEAN
      /\ request' = [request EXCEPT !.pc = "finalizer", !.todo = @ \ {t}, !.listed = @ \cup {t}]
      /\ UNCHANGED <<platform, cached, current, broker, deployment, binding, dropped, faults>>
  BY DEF CreateTrigger, t, Lowest, ServicesInv, ServicesTypeOK
<1>5. /\ request' \in ServiceRequest /\ request'.pc = "finalizer" /\ request'.at = request.at
      /\ request'.finalizer = request.finalizer
  BY <1>1, <1>2, <1>4 DEF ServiceRequest, RequestSteps
<1>6. ServicesTypeOK'
  BY <1>2, <1>4, <1>5 DEF ServicesInv, ServicesTypeOK
<1>7. RequestInv'
  BY <1>1, <1>5 DEF RequestInv, CleanupSteps
<1>8. SeenFinalizerStays'
  BY <1>4, <1>5 DEF ServicesInv, SeenFinalizerStays
<1>9. PlatformFinalizerGuardsTriggers'
  BY <1>3, <1>4 DEF ServicesInv, PlatformFinalizerGuardsTriggers
<1>. QED
  BY <1>6, <1>7, <1>8, <1>9 DEF ServicesInv

\* The sink binding of a service.
LEMMA EnsureSinkBindingStep ==
  ASSUME ServicesInv, EnsureSinkBinding
  PROVE  ServicesInv'
<1>1. request \in ServiceRequest /\ request.at \in DOMAIN Order /\ svc \in Services
  BY ServiceAt DEF EnsureSinkBinding, ServiceSteps
<1>2. UNCHANGED <<platform, cached, current, triggers, broker, deployment, dropped, faults>>
  BY DEF EnsureSinkBinding
<1>3. CASE request' = NextService(request, request.at + 1) /\ UNCHANGED <<binding, queued>>
  <2>1. /\ request' \in ServiceRequest /\ request'.pc \in {"deployment", "writeSpec"}
        /\ request'.pc = "deployment" => request'.at \in DOMAIN Order
        /\ request'.finalizer = request.finalizer
    BY <1>1, <1>3, NextServiceOK
  <2>2. ServicesTypeOK'
    BY <1>2, <1>3, <2>1 DEF ServicesInv, ServicesTypeOK
  <2>. QED
    BY <1>2, <2>1, <2>2, QuietStep DEF ServiceSteps, CleanupSteps
<1>4. CASE binding' = [binding EXCEPT ![svc] = "created"] /\ Return(TRUE)
  <2>1. request' = IdleRequest /\ request' \in ServiceRequest /\ queued' \in BOOLEAN
    BY <1>4, IdleOK DEF Return, ServicesInv, ServicesTypeOK
  <2>2. binding' \in [Services -> {"none", "created", "provided"}]
    BY <1>1, <1>4 DEF ServicesInv, ServicesTypeOK
  <2>3. ServicesTypeOK'
    BY <1>2, <2>1, <2>2 DEF ServicesInv, ServicesTypeOK
  <2>. QED
    BY <1>2, <2>1, <2>3, EndOfRequest
<1>. QED
  BY <1>3, <1>4 DEF EnsureSinkBinding

\* A clean-up deletes what its copy lists.
LEMMA DeleteTriggerStep ==
  ASSUME ServicesInv, DeleteTrigger
  PROVE  ServicesInv'
<1>1. request \in ServiceRequest /\ request.pc = "cleanup"
  BY DEF DeleteTrigger, ServicesInv, ServicesTypeOK
<1>2. UNCHANGED <<platform, cached, current, queued, broker, deployment, binding, dropped, faults>>
  BY DEF DeleteTrigger, serverVars
<1>3. CASE /\ request.todo = request.listed
           /\ request' = [request EXCEPT !.pc = "removeFinalizer"] /\ UNCHANGED triggers
  <2>1. /\ request' \in ServiceRequest /\ request'.pc = "removeFinalizer"
        /\ request'.finalizer = request.finalizer
        /\ request'.listed = request.listed /\ request'.todo = request.todo
    BY <1>1, <1>3 DEF ServiceRequest, RequestSteps
  <2>2. ServicesTypeOK'
    BY <1>2, <1>3, <2>1 DEF ServicesInv, ServicesTypeOK
  <2>3. RequestInv'
    BY <1>1, <1>2, <1>3, <2>1 DEF ServicesInv, RequestInv, ServiceSteps, CleanupSteps
  <2>4. SeenFinalizerStays' /\ PlatformFinalizerGuardsTriggers'
    BY <1>2, <1>3, <2>1 DEF ServicesInv, SeenFinalizerStays, PlatformFinalizerGuardsTriggers
  <2>. QED
    BY <2>2, <2>3, <2>4 DEF ServicesInv
<1>4. ASSUME NEW t \in request.listed \ request.todo,
             triggers' = triggers \ {t}, request' = [request EXCEPT !.todo = @ \cup {t}]
      PROVE  ServicesInv'
  <2>1. /\ request' \in ServiceRequest /\ request'.pc = "cleanup"
        /\ request'.finalizer = request.finalizer
        /\ request'.listed = request.listed /\ request'.todo = request.todo \cup {t}
    BY <1>1, <1>4 DEF ServiceRequest
  <2>2. ServicesTypeOK'
    BY <1>2, <1>4, <2>1 DEF ServicesInv, ServicesTypeOK
  <2>3. RequestInv'
    BY <1>1, <1>2, <1>4, <2>1 DEF ServicesInv, RequestInv, ServiceSteps, CleanupSteps
  <2>4. SeenFinalizerStays' /\ PlatformFinalizerGuardsTriggers'
    BY <1>2, <1>4, <2>1 DEF ServicesInv, SeenFinalizerStays, PlatformFinalizerGuardsTriggers
  <2>. QED
    BY <2>2, <2>3, <2>4 DEF ServicesInv
<1>. QED
  BY <1>3, <1>4 DEF DeleteTrigger

\* The platform goes when nothing is left of what it lists.
LEMMA RemoveFinalizerStep ==
  ASSUME ServicesInv, RemoveFinalizer
  PROVE  ServicesInv'
<1>. DEFINE gone == [platform EXCEPT !.exists = FALSE, !.finalizer = FALSE]
<1>1. /\ request.todo \cap triggers = {} /\ request.todo = platform.listed
      /\ platform \in PlatformObject
  BY DEF RemoveFinalizer, ServicesInv, ServicesTypeOK, RequestInv, CleanupSteps
<1>2. gone \in PlatformObject /\ ~gone.exists /\ ~gone.finalizer /\ gone.listed = platform.listed
  BY <1>1 DEF PlatformObject
<1>. HIDE DEF gone
<1>3. Put(gone) /\ request' = IdleRequest /\ UNCHANGED <<knativeVars, dropped, faults>>
  BY DEF RemoveFinalizer, gone
<1>4. /\ platform' = gone
      /\ cached' \in BOOLEAN /\ current' \in BOOLEAN /\ queued' \in BOOLEAN
  BY <1>2, <1>3, PutOK DEF ServicesInv
<1>5. request' \in ServiceRequest /\ request'.pc = "idle" /\ ~request'.finalizer
  BY <1>3, IdleOK DEF ServicesInv
<1>6. ServicesTypeOK'
  BY <1>2, <1>3, <1>4, <1>5 DEF ServicesInv, ServicesTypeOK, knativeVars
<1>7. RequestInv'
  BY <1>5 DEF RequestInv, ServiceSteps, CleanupSteps
<1>8. SeenFinalizerStays'
  BY <1>2, <1>4, <1>5 DEF SeenFinalizerStays
<1>9. PlatformFinalizerGuardsTriggers'
  BY <1>1, <1>2, <1>3, <1>4 DEF PlatformFinalizerGuardsTriggers, knativeVars
<1>. QED
  BY <1>6, <1>7, <1>8, <1>9 DEF ServicesInv

\* A request that fails changes nothing else.
LEMMA RequestErrorStep ==
  ASSUME ServicesInv, RequestError
  PROVE  ServicesInv'
<1>1. UNCHANGED <<platform, cached, current, triggers, broker, deployment, binding, dropped>> /\ Return(TRUE)
  BY DEF RequestError, knativeVars
<1>2. faults' \in 0..MaxFaults
  BY FaultOK DEF RequestError, ServicesInv, ServicesTypeOK
<1>3. request' = IdleRequest /\ request' \in ServiceRequest /\ queued' \in BOOLEAN
  BY <1>1, IdleOK DEF Return, ServicesInv, ServicesTypeOK
<1>4. ServicesTypeOK'
  BY <1>1, <1>2, <1>3 DEF ServicesInv, ServicesTypeOK
<1>. QED
  BY <1>1, <1>3, <1>4, EndOfRequest

-----------------------------------------------------------------------------
(* So do Knative, the garbage collector, the user and failures.            *)

\* Triggers may go, and brokers, Deployments, bindings and queues change,
\* without the platform or the request.
LEMMA TriggersGo ==
  ASSUME ServicesInv, ServicesTypeOK', triggers' \subseteq triggers,
         UNCHANGED <<platform, current, request>>
  PROVE  ServicesInv'
  BY DEF ServicesInv, RequestInv, SeenFinalizerStays, PlatformFinalizerGuardsTriggers

\* Knative, the garbage collector and the watches.
LEMMA KnativeStep ==
  ASSUME ServicesInv,
         DeliverPlatform \/ BrokerReady \/ BrokerLost \/ SinkProvided \/ TriggerLost \/ CollectGarbage
  PROVE  ServicesInv'
<1>1. UNCHANGED <<platform, current, request, dropped>>
  BY DEF DeliverPlatform, BrokerReady, BrokerLost, SinkProvided, TriggerLost, CollectGarbage, serverVars
<1>2. triggers' \subseteq triggers
  BY DEF DeliverPlatform, BrokerReady, BrokerLost, SinkProvided, TriggerLost, CollectGarbage, knativeVars
<1>3. faults' \in 0..MaxFaults
  BY FaultOK DEF DeliverPlatform, BrokerReady, BrokerLost, SinkProvided, TriggerLost, CollectGarbage,
                 ServicesInv, ServicesTypeOK
<1>4. broker' \subseteq Namespaces
  BY DEF DeliverPlatform, BrokerReady, BrokerLost, SinkProvided, TriggerLost, CollectGarbage,
         ServicesInv, ServicesTypeOK, knativeVars
<1>5. /\ deployment' \in [Services -> {"none", "zero", "up"}]
      /\ binding' \in [Services -> {"none", "created", "provided"}]
  BY DEF DeliverPlatform, BrokerReady, BrokerLost, SinkProvided, TriggerLost, CollectGarbage,
         ServicesInv, ServicesTypeOK, knativeVars
<1>6. cached' \in BOOLEAN /\ queued' \in BOOLEAN
  BY DEF DeliverPlatform, BrokerReady, BrokerLost, SinkProvided, TriggerLost, CollectGarbage,
         ServicesInv, ServicesTypeOK, serverVars
<1>7. ServicesTypeOK'
  BY <1>1, <1>2, <1>3, <1>4, <1>5, <1>6 DEF ServicesInv, ServicesTypeOK
<1>. QED
  BY <1>1, <1>2, <1>7, TriggersGo

\* A platform the user changes keeps its finalizer, and goes at once only if
\* it has none: a request under way knows that it is not current any more.
LEMMA UserStep ==
  ASSUME ServicesInv, UserEdits \/ UserDeletes
  PROVE  ServicesInv'
<1>1. platform \in PlatformObject /\ platform.exists
  BY DEF UserEdits, UserDeletes, ServicesInv, ServicesTypeOK
<1>2. PICK new \in PlatformObject :
        /\ Put(new) /\ new.finalizer = platform.finalizer /\ new.listed = platform.listed
        /\ new.finalizer => new.exists
  <2>1. CASE UserEdits
    <3>1. PICK spec \in Specs : Put([platform EXCEPT !.spec = spec])
      BY <2>1 DEF UserEdits
    <3>. DEFINE new == [platform EXCEPT !.spec = spec]
    <3>2. /\ new \in PlatformObject /\ new.finalizer = platform.finalizer
          /\ new.listed = platform.listed /\ new.exists
      BY <1>1 DEF PlatformObject
    <3>. HIDE DEF new
    <3>3. Put(new)
      BY <3>1 DEF new
    <3>. QED
      BY <3>2, <3>3
  <2>2. CASE UserDeletes
    <3>. DEFINE new == [platform EXCEPT !.deleting = TRUE, !.exists = platform.finalizer]
    <3>1. /\ new \in PlatformObject /\ new.finalizer = platform.finalizer
          /\ new.listed = platform.listed /\ new.exists = platform.finalizer
      BY <1>1 DEF PlatformObject
    <3>2. Put(new)
      BY <2>2 DEF UserDeletes
    <3>. HIDE DEF new
    <3>. QED
      BY <3>1, <3>2
  <2>. QED
    BY <2>1, <2>2
<1>3. UNCHANGED <<request, knativeVars, dropped>> /\ faults' \in 0..MaxFaults
  BY FaultOK DEF UserEdits, UserDeletes, ServicesInv
<1>4. /\ platform' = new
      /\ cached' \in BOOLEAN /\ current' \in BOOLEAN /\ queued' \in BOOLEAN
      /\ current' => current
  BY <1>2, PutOK DEF ServicesInv
<1>5. ServicesTypeOK'
  BY <1>2, <1>3, <1>4 DEF ServicesInv, ServicesTypeOK, knativeVars
<1>6. RequestInv'
  BY <1>2, <1>3, <1>4 DEF ServicesInv, RequestInv, knativeVars
<1>7. SeenFinalizerStays'
  BY <1>2, <1>3, <1>4 DEF ServicesInv, SeenFinalizerStays
<1>8. PlatformFinalizerGuardsTriggers'
  BY <1>1, <1>2, <1>3, <1>4 DEF ServicesInv, PlatformFinalizerGuardsTriggers, knativeVars
<1>. QED
  BY <1>5, <1>6, <1>7, <1>8 DEF ServicesInv

\* A crash ends the request.
LEMMA CrashStep ==
  ASSUME ServicesInv, Crash
  PROVE  ServicesInv'
<1>1. /\ request' = IdleRequest /\ cached' = TRUE /\ queued' = platform.exists
      /\ UNCHANGED <<platform, current, triggers, broker, deployment, binding, dropped>>
      /\ faults' \in 0..MaxFaults
  BY FaultOK DEF Crash, ServicesInv, knativeVars
<1>2. request' \in ServiceRequest
  BY <1>1, IdleOK DEF ServicesInv
<1>3. ServicesTypeOK'
  BY <1>1, <1>2 DEF ServicesInv, ServicesTypeOK, PlatformObject
<1>. QED
  BY <1>1, <1>3, EndOfRequest

-----------------------------------------------------------------------------
(* The theorems.                                                           *)

\* The invariant holds of a new platform.
LEMMA InitServices ==
  ASSUME Init
  PROVE  ServicesInv
<1>1. PICK spec \in Specs :
        platform = [exists |-> TRUE, deleting |-> FALSE, finalizer |-> FALSE, spec |-> spec, listed |-> {}]
  BY DEF Init
<1>2. platform \in PlatformObject /\ ~platform.finalizer /\ platform.exists
  BY <1>1 DEF PlatformObject
<1>3. (CHOOSE s \in Specs : TRUE) \in Specs
  BY <1>1
<1>4. 0 \in 0..(Cardinality(Services) + 1)
  BY ServiceCount
<1>5. request \in ServiceRequest /\ request.pc = "idle" /\ ~request.finalizer
  BY <1>3, <1>4 DEF Init, IdleRequest, ServiceRequest, RequestSteps
<1>6. ServicesTypeOK
  <2>1. /\ deployment \in [Services -> {"none", "zero", "up"}]
        /\ binding \in [Services -> {"none", "created", "provided"}]
    BY DEF Init
  <2>2. faults \in 0..MaxFaults
    BY ServicesAssumption DEF Init, ServicesAssumption
  <2>. QED
    BY <1>2, <1>5, <2>1, <2>2 DEF Init, ServicesTypeOK
<1>7. RequestInv
  BY <1>5 DEF RequestInv, ServiceSteps, CleanupSteps
<1>8. SeenFinalizerStays /\ PlatformFinalizerGuardsTriggers
  BY <1>2, <1>5 DEF Init, SeenFinalizerStays, PlatformFinalizerGuardsTriggers
<1>. QED
  BY <1>6, <1>7, <1>8 DEF ServicesInv

\* Every step keeps it.
LEMMA ServicesStep ==
  ASSUME ServicesInv, [Next]_serviceVars
  PROVE  ServicesInv'
<1>1. CASE Controller
  BY <1>1, WritesStep, DeploymentStep, ValidateBrokerStep, SetFinalizerStep, CreateTriggerStep,
     EnsureSinkBindingStep, DeleteTriggerStep, RemoveFinalizerStep, RequestErrorStep DEF Controller
<1>2. CASE UNCHANGED serviceVars
  BY <1>2 DEF serviceVars, serverVars, knativeVars, ServicesInv, ServicesTypeOK, RequestInv,
              SeenFinalizerStays, PlatformFinalizerGuardsTriggers
<1>. QED
  BY <1>1, <1>2, StartStep, KnativeStep, UserStep, CrashStep DEF Next

\* The invariant holds in every behaviour.
THEOREM ServicesInvariance == Spec => []ServicesInv
<1>1. Init => ServicesInv
  BY InitServices
<1>2. ServicesInv /\ [Next]_serviceVars => ServicesInv'
  BY ServicesStep
<1>. QED
  BY <1>1, <1>2, PTL DEF Spec

\* Every variable keeps its type, whatever the services and their brokers.
THEOREM ServicesTypeCorrect == Spec => []ServicesTypeOK
<1>1. ServicesInv => ServicesTypeOK
  BY DEF ServicesInv
<1>. QED
  BY <1>1, ServicesInvariance, PTL

\* setSonataFlowPlatformFinalizer and cleanupTriggers: a platform without the
\* finalizer has no triggers in other namespaces, and one that is gone has
\* left none of those it listed.
THEOREM PlatformFinalizerTheorem == Spec => []PlatformFinalizerGuardsTriggers
<1>1. ServicesInv => PlatformFinalizerGuardsTriggers
  BY DEF ServicesInv
<1>. QED
  BY <1>1, ServicesInvariance, PTL
=============================================================================
