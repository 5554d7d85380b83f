--------------------------- MODULE PlatformProofs ---------------------------
(***************************************************************************)
(* What TLAPS proves of PlatformSystem: every variable keeps its type, and *)
(* only one primary platform of a namespace is active as long as no        *)
(* decision was made on an old list, for any platforms, cluster platforms, *)
(* faults and interleavings.                                               *)
(***************************************************************************)
EXTENDS PlatformSystem, TLAPS

-----------------------------------------------------------------------------
(* The inductive invariant.                                                *)

\* The request may write a condition with which its platform is in use: the
\* action has begun to set the platform up, or is about to write its outcome.
TakesIntoUse ==
  \/ pk.pc \in {"defaultsStatus", "defaultsSpec", "deletePod", "createPod"}
  \/ pk.pc \in {"writeSpec", "writeStatus"} /\ pk.cond # Duplicated

\* No primary platform but p is in use.
NoneButInUse(p) == \A q \in Primary(Platforms) \ {p} : ~InUse(q)

\* The request has found no other platform in use, and none becomes so while
\* it runs: only the request itself takes a platform into use.
RequestIsAlone == stale \/ (TakesIntoUse /\ pk.p \notin Secondary => NoneButInUse(pk.p))

\* The request of the cluster platform controller that patches has a target.
PatchHasTarget == ck.pc = "patch" => ck.c \in ClusterPlatforms

\* The invariant.
PlatformInv ==
  /\ PlatformTypeOK
  /\ PatchHasTarget
  /\ RequestIsAlone
  /\ OnlyOneActive

-----------------------------------------------------------------------------
(* Types of values.                                                        *)

\* The conditions the controllers write.
LEMMA WrittenConditions ==
  /\ NilCond \in SucceedCondition /\ Duplicated \in SucceedCondition
  /\ Cond("True", "Warming") \in SucceedCondition /\ Cond("True", "") \in SucceedCondition
  /\ Cond("False", "Creating") \in SucceedCondition /\ Cond("False", "Warming") \in SucceedCondition
  /\ Cond("False", "Failure") \in SucceedCondition
  /\ \A o : Followed(o) \in SucceedCondition
<1>1. \A s \in {"nil", "True", "False", "Unknown"}, r \in PlatformReasons : Cond(s, r) \in SucceedCondition
  BY DEF Cond, SucceedCondition
<1>. QED
  BY <1>1 DEF NilCond, Duplicated, Followed, PlatformReasons

\* Initialising a condition only makes one that is not set Unknown.
LEMMA InitializedCondOK ==
  ASSUME NEW c \in SucceedCondition
  PROVE  /\ InitializedCond(c) \in SucceedCondition
         /\ ~IsUnknown(InitializedCond(c)) => InitializedCond(c) = c
<1>1. InitializedCond(c) = IF c # NilCond THEN c ELSE Cond("Unknown", "")
  BY DEF InitializedCond, InitializeConditions
<1>2. Cond("Unknown", "") \in SucceedCondition /\ IsUnknown(Cond("Unknown", ""))
  BY DEF Cond, SucceedCondition, PlatformReasons, IsUnknown
<1>. QED
  BY <1>1, <1>2

\* A fault keeps within the budget.
LEMMA FaultOK ==
  ASSUME faults \in 0..MaxFaults, NEW kind, Fault(kind)
  PROVE  faults' \in 0..MaxFaults
  BY PlatformAssumption DEF Fault, PlatformAssumption

\* The names of the objects.
LEMMA Names ==
  /\ Default \in Platforms
  /\ Platforms \cap ClusterPlatforms = {}
  /\ Lagging \subseteq Platforms \cup ClusterPlatforms
  BY PlatformAssumption DEF PlatformAssumption

-----------------------------------------------------------------------------
(* The objects: the type invariant of PlatformObjects.                     *)

\* Types of the objects, of their cached copies and of the queues.
ObjectsTypeOK ==
  /\ platform \in [Platforms -> Platform] /\ seen \in [Platforms -> Platform]
  /\ cplatform \in [ClusterPlatforms -> ClusterPlatform]
  /\ cseen \in [ClusterPlatforms -> ClusterPlatform]
  /\ behind \subseteq Lagging
  /\ queued \subseteq Platforms \cup ClusterPlatforms

\* An event wakes platforms and cluster platforms only.
LEMMA EventOK ==
  ASSUME ObjectsTypeOK
  PROVE  /\ \A p \in Platforms : PlatformEvent(p) => queued' \subseteq Platforms \cup ClusterPlatforms
         /\ \A c \in ClusterPlatforms :
              \A old, new : WokenByClusterPlatform(c, old, new) \subseteq Platforms \cup ClusterPlatforms
<1>1. ActiveClusterPlatforms(cseen) \subseteq ClusterPlatforms \cup {"none"}
  BY DEF ActiveClusterPlatforms, Primary
<1>2. ASSUME NEW p \in Platforms, NEW a \in ClusterPlatforms \cup {"none"}
      PROVE  WokenByPlatform(p, a) \subseteq Platforms \cup ClusterPlatforms
  BY DEF WokenByPlatform
<1>3. ASSUME NEW p \in Platforms, PlatformEvent(p)
      PROVE  queued' \subseteq Platforms \cup ClusterPlatforms
  BY <1>1, <1>2, <1>3 DEF PlatformEvent, ObjectsTypeOK
<1>. QED
  BY <1>3 DEF WokenByClusterPlatform

\* A platform is written.
LEMMA PutPlatformOK ==
  ASSUME ObjectsTypeOK, NEW p \in Platforms, NEW new \in Platform, PutPlatform(p, new)
  PROVE  ObjectsTypeOK' /\ platform' = [platform EXCEPT ![p] = new]
<1>1. platform' = [platform EXCEPT ![p] = new] /\ UNCHANGED <<cplatform, cseen>>
  BY DEF PutPlatform
<1>2. seen' \in [Platforms -> Platform] /\ behind' \subseteq Lagging
  BY DEF PutPlatform, ObjectsTypeOK
<1>3. queued' \subseteq Platforms \cup ClusterPlatforms
  BY EventOK DEF PutPlatform, ObjectsTypeOK
<1>. QED
  BY <1>1, <1>2, <1>3 DEF ObjectsTypeOK

\* A cluster platform is written, and q was queued.
LEMMA StoreClusterPlatformOK ==
  ASSUME ObjectsTypeOK, NEW c \in ClusterPlatforms, NEW new \in ClusterPlatform,
         NEW q \in SUBSET (Platforms \cup ClusterPlatforms), StoreClusterPlatform(c, new, q)
  PROVE  ObjectsTypeOK' /\ UNCHANGED platform
<1>1. cplatform' = [cplatform EXCEPT ![c] = new] /\ UNCHANGED <<platform, seen>>
  BY DEF StoreClusterPlatform
<1>2. cseen' \in [ClusterPlatforms -> ClusterPlatform] /\ behind' \subseteq Lagging
  BY DEF StoreClusterPlatform, ObjectsTypeOK
<1>3. queued' \subseteq Platforms \cup ClusterPlatforms
  BY EventOK DEF StoreClusterPlatform, ObjectsTypeOK
<1>. QED
  BY <1>1, <1>2, <1>3 DEF ObjectsTypeOK

\* The user writes a cluster platform.
LEMMA PutClusterPlatformOK ==
  ASSUME ObjectsTypeOK, NEW c \in ClusterPlatforms, NEW new \in ClusterPlatform, PutClusterPlatform(c, new)
  PROVE  ObjectsTypeOK' /\ UNCHANGED platform
BY StoreClusterPlatformOK DEF PutClusterPlatform, ObjectsTypeOK

\* An informer delivers.
LEMMA DeliverOK ==
  ASSUME ObjectsTypeOK, NEW o \in Platforms \cup ClusterPlatforms,
         \/ o \in Platforms /\ DeliverPlatform(o)
         \/ o \in ClusterPlatforms /\ DeliverClusterPlatform(o)
  PROVE  ObjectsTypeOK' /\ UNCHANGED platform
<1>1. CASE o \in Platforms /\ DeliverPlatform(o)
  <2>1. queued' \subseteq Platforms \cup ClusterPlatforms
    BY <1>1, EventOK DEF DeliverPlatform
  <2>. QED
    BY <1>1, <2>1 DEF DeliverPlatform, ObjectsTypeOK
<1>2. CASE o \in ClusterPlatforms /\ DeliverClusterPlatform(o)
  <2>1. queued' \subseteq Platforms \cup ClusterPlatforms
    BY <1>2, EventOK DEF DeliverClusterPlatform, ObjectsTypeOK
  <2>. QED
    BY <1>2, <2>1 DEF DeliverClusterPlatform, ObjectsTypeOK
<1>. QED
  BY <1>1, <1>2

-----------------------------------------------------------------------------
(* Platforms in use.                                                       *)

\* A platform object with which its name is in use.
TakenIntoUse(o) == o.exists /\ ~IsUnknown(o.cond) /\ o.cond # Duplicated

\* A write of one platform leaves the others as they are.
LEMMA PutInUse ==
  ASSUME platform \in [Platforms -> Platform],
         NEW p \in Platforms, NEW new \in Platform, platform' = [platform EXCEPT ![p] = new]
  PROVE  /\ \A q \in Platforms \ {p} : InUse(q)' <=> InUse(q)
         /\ InUse(p)' <=> TakenIntoUse(new)
  BY DEF InUse, IsDuplicated, TakenIntoUse, IsUnknown

\* As long as no platform comes into use the request stays alone, and one
\* platform at most in use.
LEMMA NoMoreInUse ==
  ASSUME PlatformInv, \A q \in Platforms : InUse(q)' => InUse(q), stale' = stale,
         TakesIntoUse' => TakesIntoUse /\ pk'.p = pk.p
  PROVE  RequestIsAlone' /\ OnlyOneActive'
<1>1. CASE stale
  BY <1>1 DEF RequestIsAlone, OnlyOneActive
<1>2. CASE ~stale
  <2>1. \A q \in Primary(Platforms) : InUse(q)' => InUse(q)
    BY DEF Primary
  <2>2. OnlyOneActive'
    BY <1>2, <2>1 DEF PlatformInv, OnlyOneActive
  <2>3. ASSUME TakesIntoUse', pk'.p \notin Secondary, NEW q \in Primary(Platforms) \ {pk'.p}
        PROVE  ~InUse(q)'
    BY <1>2, <2>1, <2>3 DEF PlatformInv, RequestIsAlone, NoneButInUse
  <2>4. RequestIsAlone'
    BY <2>3 DEF RequestIsAlone, NoneButInUse
  <2>. QED
    BY <2>2, <2>4
<1>. QED
  BY <1>1, <1>2

\* A platform that the request takes into use is the only one.
LEMMA RequestTakesIntoUse ==
  ASSUME PlatformInv, NEW new \in Platform, platform' = [platform EXCEPT ![pk.p] = new],
         stale' = stale, pk'.p = pk.p, TakesIntoUse' => TakesIntoUse,
         TakenIntoUse(new) => TakesIntoUse
  PROVE  RequestIsAlone' /\ OnlyOneActive'
<1>1. PICK p \in Platforms : p = pk.p
  BY DEF PlatformInv, PlatformTypeOK, PlatformRequest
<1>2. /\ \A q \in Platforms \ {p} : InUse(q)' <=> InUse(q)
      /\ InUse(p)' <=> TakenIntoUse(new)
  BY <1>1, PutInUse DEF PlatformInv, PlatformTypeOK
<1>3. CASE stale
  BY <1>3 DEF RequestIsAlone, OnlyOneActive
<1>4. CASE ~stale /\ TakesIntoUse
  <2>1. p \in Primary(Platforms) => \A q \in Primary(Platforms) \ {p} : ~InUse(q)'
    BY <1>1, <1>2, <1>4 DEF PlatformInv, RequestIsAlone, NoneButInUse, Primary
  <2>2. RequestIsAlone'
    BY <1>1, <2>1 DEF RequestIsAlone, NoneButInUse, Primary
  <2>3. ASSUME NEW q \in Primary(Platforms), NEW r \in Primary(Platforms), InUse(q)', InUse(r)'
        PROVE  q = r
    <3>1. CASE q = p \/ r = p
      BY <2>1, <2>3, <3>1
    <3>2. CASE q # p /\ r # p
      BY <1>2, <1>4, <2>3, <3>2 DEF PlatformInv, OnlyOneActive, Primary
    <3>. QED
      BY <3>1, <3>2
  <2>. QED
    BY <2>2, <2>3 DEF OnlyOneActive
<1>5. CASE ~stale /\ ~TakesIntoUse
  <2>1. \A q \in Platforms : InUse(q)' => InUse(q)
    BY <1>2, <1>5
  <2>. QED
    BY <1>5, <2>1, NoMoreInUse
<1>. QED
  BY <1>3, <1>4, <1>5

-----------------------------------------------------------------------------
(* Requests of the platform controller.                                    *)

\* An action keeps to the platform of the request; it takes it into use only
\* if it initialises it without seeing another, or if it already is.
LEMMA ActionOK ==
  ASSUME NEW t \in PlatformRequest
  PROVE  /\ Action(t) \in PlatformRequest /\ Action(t).p = t.p
         /\ \/ Action(t).pc = "done"
            \/ Action(t).pc = "writeSpec" /\ Action(t).cond = Duplicated
            \/ InitializeCanHandle(t) /\ ~IsPrimaryDuplicate(t.p)
            \/ ~IsUnknown(t.cond) /\ ~IsDuplicated(t)
<1>. DEFINE done == [t EXCEPT !.pc = "done"]
            service == [t EXCEPT !.pc = "defaultsStatus"]
            Writes(c) == [t EXCEPT !.pc = "writeSpec", !.cond = c]
<1>1. /\ done \in PlatformRequest /\ done.p = t.p /\ done.pc = "done"
      /\ service \in PlatformRequest /\ service.p = t.p
  BY DEF PlatformRequest, PlatformSteps
<1>2. ASSUME NEW c \in SucceedCondition
      PROVE  /\ Writes(c) \in PlatformRequest /\ Writes(c).p = t.p
             /\ Writes(c).pc = "writeSpec" /\ Writes(c).cond = c
  BY DEF PlatformRequest, PlatformSteps
<1>3. CASE InitializeCanHandle(t)
  <2>1. Action(t) = Initialize(t)
    BY <1>3 DEF Action, InitializeCanHandle, IsUnknown, IsReady, IsTrue, IsDuplicated, Duplicated, Cond
  <2>2. CASE ~IsPrimaryDuplicate(t.p)
    <3>1. Initialize(t) = service
      BY <2>2 DEF Initialize
    <3>. QED
      BY <1>1, <1>3, <2>1, <2>2, <3>1
  <2>3. CASE IsPrimaryDuplicate(t.p)
    <3>1. Initialize(t) = done \/ Initialize(t) = Writes(Duplicated)
      BY <2>3 DEF Initialize
    <3>. HIDE DEF done, service, Writes
    <3>. QED
      BY <1>1, <1>2, <2>1, <3>1, WrittenConditions
  <2>. QED
    BY <2>2, <2>3
<1>4. CASE ~InitializeCanHandle(t)
  <2>1. ~IsUnknown(t.cond) /\ ~IsDuplicated(t)
    BY <1>4 DEF InitializeCanHandle
  <2>2. \/ Action(t) = service \/ Action(t) = done
        \/ Action(t) = Writes(Cond("True", "Warming")) \/ Action(t) = Writes(Cond("True", ""))
    BY <1>4 DEF Action, Service, Warm, Create
  <2>. HIDE DEF done, service, Writes
  <2>. QED
    BY <1>1, <1>2, <2>1, <2>2, WrittenConditions
<1>. QED
  BY <1>3, <1>4

\* The request after CreateOrUpdateWithDefaults.
LEMMA AfterDefaultsOK ==
  ASSUME NEW t \in PlatformRequest
  PROVE  AfterDefaults(t) \in PlatformRequest /\ AfterDefaults(t).p = t.p
<1>. DEFINE spec == [t EXCEPT !.pc = "writeSpec"]
            pod == [t EXCEPT !.pc = "deletePod"]
            creating == [t EXCEPT !.pc = "writeSpec", !.cond = Cond("False", "Creating")]
<1>1. AfterDefaults(t) = spec \/ AfterDefaults(t) = pod \/ AfterDefaults(t) = creating
  BY DEF AfterDefaults
<1>2. /\ spec \in PlatformRequest /\ spec.p = t.p
      /\ pod \in PlatformRequest /\ pod.p = t.p
  BY DEF PlatformRequest, PlatformSteps
<1>3. ASSUME NEW c \in SucceedCondition
      PROVE  LET writes == [t EXCEPT !.pc = "writeSpec", !.cond = c]
             IN writes \in PlatformRequest /\ writes.p = t.p
  BY DEF PlatformRequest, PlatformSteps
<1>4. creating \in PlatformRequest /\ creating.p = t.p
  BY <1>3, WrittenConditions
<1>. HIDE DEF spec, pod, creating
<1>. QED
  BY <1>1, <1>2, <1>4

\* A request that has ended is a request.
LEMMA IdlePlatformOK ==
  IdlePlatform \in PlatformRequest /\ IdlePlatform.pc = "idle"
<1>1. 0 \in Versions
  BY PlatformAssumption DEF Versions, PlatformAssumption
<1>2. Default \in Platforms /\ NilCond \in SucceedCondition
  BY Names, WrittenConditions
<1>. QED
  BY <1>1, <1>2 DEF IdlePlatform, PlatformRequest, PlatformSteps

\* The type of the objects is part of it.
LEMMA ObjectsTyped ==
  ASSUME PlatformTypeOK
  PROVE  ObjectsTypeOK
  BY DEF ObjectsTypeOK, PlatformTypeOK

\* A request starts: unless the list it decides on is old, it is alone.
LEMMA PlatformStartStep ==
  ASSUME PlatformInv, NEW p \in Platforms, PlatformStart(p), UNCHANGED ck
  PROVE  PlatformInv'
<1>. DEFINE cond == InitializedCond(platform[p].cond)
<1>1. /\ pk.pc = "idle" /\ queued' = queued \ {p}
      /\ UNCHANGED <<platform, seen, cplatform, cseen, behind, creatable, faults, gk, warmer>>
      /\ stale' \in BOOLEAN /\ (stale => stale')
  BY DEF PlatformStart, userVars, PlatformInv, PlatformTypeOK
<1>2. PatchHasTarget'
  BY DEF PlatformInv, PatchHasTarget
<1>3. OnlyOneActive'
  <2>1. \A q \in Platforms : InUse(q)' <=> InUse(q)
    BY <1>1 DEF InUse
  <2>. QED
    BY <1>1, <2>1 DEF PlatformInv, OnlyOneActive, Primary
<1>4. CASE ~platform[p].exists
  <2>1. pk' = pk
    BY <1>4 DEF PlatformStart
  <2>2. PlatformTypeOK'
    BY <1>1, <2>1 DEF PlatformInv, PlatformTypeOK
  <2>3. RequestIsAlone'
    BY <1>1, <2>1 DEF RequestIsAlone, TakesIntoUse
  <2>. QED
    BY <1>2, <1>3, <2>2, <2>3 DEF PlatformInv
<1>5. CASE platform[p].exists
  <2>1. platform[p] \in Platform /\ platform[p].cond \in SucceedCondition
    BY DEF PlatformInv, PlatformTypeOK, Platform
  <2>2. cond \in SucceedCondition /\ (~IsUnknown(cond) => cond = platform[p].cond)
    BY <2>1, InitializedCondOK
  <2>. HIDE DEF cond
  <2>3. PICK a \in ActiveClusterPlatforms(cseen) :
          pk' = Action([pc |-> "idle", p |-> p, spec |-> platform[p].spec, cond |-> cond, ref |-> a])
    BY <1>5 DEF PlatformStart, cond
  <2>. DEFINE t == [pc |-> "idle", p |-> p, spec |-> platform[p].spec, cond |-> cond, ref |-> a]
  <2>4. a \in ClusterPlatforms \cup {"none"}
    BY DEF ActiveClusterPlatforms, Primary
  <2>5. t \in PlatformRequest /\ t.p = p /\ t.cond = cond
    BY <2>1, <2>2, <2>4 DEF PlatformRequest, PlatformSteps, Platform
  <2>. HIDE DEF t
  <2>6. pk' = Action(t)
    BY <2>3 DEF t
  <2>7. /\ pk' \in PlatformRequest /\ pk'.p = p
        /\ \/ pk'.pc = "done"
           \/ pk'.pc = "writeSpec" /\ pk'.cond = Duplicated
           \/ InitializeCanHandle(t) /\ ~IsPrimaryDuplicate(p)
           \/ ~IsUnknown(cond) /\ ~IsDuplicated(t)
    BY <2>5, <2>6, ActionOK
  <2>8. PlatformTypeOK'
    BY <1>1, <2>7 DEF PlatformInv, PlatformTypeOK
  <2>9. ASSUME ~stale', p \notin Secondary, InitializeCanHandle(t), ~IsPrimaryDuplicate(p)
        PROVE  NoneButInUse(p)
    <3>1. InitializeCanHandle([cond |-> cond])
      BY <2>5, <2>9 DEF InitializeCanHandle, IsDuplicated
    <3>2. ~DuplicateIn(platform, p)
      BY <1>5, <2>9, <3>1 DEF PlatformStart, cond
    <3>. QED
      BY <2>9, <3>2 DEF DuplicateIn, NoneButInUse, InUse, PlatformIsActive
  <2>10. ASSUME ~stale', p \notin Secondary, ~IsUnknown(cond), ~IsDuplicated(t)
         PROVE  NoneButInUse(p)
    <3>1. InUse(p) /\ p \in Primary(Platforms)
      BY <1>5, <2>2, <2>5, <2>10 DEF InUse, IsDuplicated, Primary
    <3>. QED
      BY <1>1, <2>10, <3>1 DEF PlatformInv, OnlyOneActive, NoneButInUse
  <2>11. NoneButInUse(p) => \A q \in Primary(Platforms) \ {p} : ~InUse(q)'
    BY <1>1 DEF NoneButInUse, InUse
  <2>12. RequestIsAlone'
    BY <2>7, <2>9, <2>10, <2>11 DEF RequestIsAlone, TakesIntoUse, NoneButInUse
  <2>. QED
    BY <1>2, <1>3, <2>8, <2>12 DEF PlatformInv
<1>. QED
  BY <1>4, <1>5

\* What SafeUpdatePlatform and SafeUpdatePlatformStatus write.
LEMMA SafeUpdate ==
  ASSUME PlatformTypeOK, NEW p \in Platforms, NEW spec \in Versions,
         NEW cond \in SucceedCondition, NEW ref \in ClusterPlatforms \cup {"none"}
  PROVE  /\ SafeUpdatePlatform(p, spec) =>
              /\ ObjectsTypeOK'
              /\ \A q \in Platforms : InUse(q)' <=> InUse(q)
         /\ SafeUpdatePlatformStatus(p, cond, ref) =>
              /\ ObjectsTypeOK'
              /\ \E new \in Platform : new.cond = cond /\ platform' = [platform EXCEPT ![p] = new]
<1>. DEFINE withSpec == [platform[p] EXCEPT !.spec = spec]
            withStatus == [platform[p] EXCEPT !.cond = cond, !.ref = ref]
<1>1. platform[p] \in Platform /\ platform \in [Platforms -> Platform] /\ ObjectsTypeOK
  BY ObjectsTyped DEF PlatformTypeOK
<1>2. /\ withSpec \in Platform
      /\ withSpec.exists = platform[p].exists /\ withSpec.cond = platform[p].cond
      /\ withStatus \in Platform /\ withStatus.cond = cond
  BY <1>1 DEF Platform
<1>. HIDE DEF withSpec, withStatus
<1>3. ASSUME SafeUpdatePlatform(p, spec)
      PROVE  ObjectsTypeOK' /\ \A q \in Platforms : InUse(q)' <=> InUse(q)
  <2>1. PutPlatform(p, withSpec)
    BY <1>3 DEF SafeUpdatePlatform, withSpec
  <2>2. ObjectsTypeOK' /\ platform' = [platform EXCEPT ![p] = withSpec]
    BY <1>1, <1>2, <2>1, PutPlatformOK
  <2>3. InUse(p) <=> TakenIntoUse(withSpec)
    BY <1>2 DEF InUse, TakenIntoUse, IsDuplicated
  <2>4. /\ \A q \in Platforms \ {p} : InUse(q)' <=> InUse(q)
        /\ InUse(p)' <=> TakenIntoUse(withSpec)
    BY <1>1, <1>2, <2>2, PutInUse
  <2>. QED
    BY <2>2, <2>3, <2>4
<1>4. ASSUME SafeUpdatePlatformStatus(p, cond, ref)
      PROVE  /\ ObjectsTypeOK'
             /\ \E new \in Platform : new.cond = cond /\ platform' = [platform EXCEPT ![p] = new]
  <2>1. PutPlatform(p, withStatus)
    BY <1>4 DEF SafeUpdatePlatformStatus, withStatus
  <2>. QED
    BY <1>1, <1>2, <2>1, PutPlatformOK
<1>. QED
  BY <1>3, <1>4

\* The request of the platform controller.
LEMMA PlatformRequestTyped ==
  ASSUME PlatformInv
  PROVE  /\ PlatformTypeOK /\ ObjectsTypeOK
         /\ pk \in PlatformRequest /\ pk.p \in Platforms /\ pk.spec \in Versions
         /\ pk.cond \in SucceedCondition /\ pk.ref \in ClusterPlatforms \cup {"none"}
  BY ObjectsTyped DEF PlatformInv, PlatformTypeOK, PlatformRequest

\* The two writes of the status.
LEMMA StatusStep ==
  ASSUME PlatformInv, DefaultsStatus \/ WriteStatus, UNCHANGED ck
  PROVE  PlatformInv'
<1>1. SafeUpdatePlatformStatus(pk.p, pk.cond, pk.ref) /\ UNCHANGED <<creatable, faults, gk, warmer, stale>>
  BY DEF DefaultsStatus, WriteStatus, userVars
<1>2. ObjectsTypeOK'
  BY <1>1, PlatformRequestTyped, SafeUpdate
<1>3. PICK new \in Platform : new.cond = pk.cond /\ platform' = [platform EXCEPT ![pk.p] = new]
  BY <1>1, PlatformRequestTyped, SafeUpdate
<1>4. /\ pk' \in PlatformRequest /\ pk'.p = pk.p
      /\ TakesIntoUse' => TakesIntoUse
      /\ TakesIntoUse \/ pk.cond = Duplicated
  <2>1. CASE DefaultsStatus
    BY <2>1, PlatformRequestTyped DEF DefaultsStatus, PlatformRequest, PlatformSteps, TakesIntoUse
  <2>2. CASE WriteStatus
    BY <2>2, PlatformRequestTyped DEF WriteStatus, PlatformRequest, PlatformSteps, TakesIntoUse
  <2>. QED
    BY <2>1, <2>2
<1>5. PlatformTypeOK' /\ PatchHasTarget'
  BY <1>1, <1>2, <1>4 DEF PlatformInv, ObjectsTypeOK, PlatformTypeOK, PatchHasTarget
<1>6. TakenIntoUse(new) => TakesIntoUse
  BY <1>3, <1>4 DEF TakenIntoUse
<1>7. RequestIsAlone' /\ OnlyOneActive'
  BY <1>1, <1>3, <1>4, <1>6, RequestTakesIntoUse
<1>. QED
  BY <1>5, <1>7 DEF PlatformInv

\* The two writes of the spec: they do not take a platform into use.
LEMMA SpecStep ==
  ASSUME PlatformInv, DefaultsSpec \/ WriteSpec, UNCHANGED ck
  PROVE  PlatformInv'
<1>1. SafeUpdatePlatform(pk.p, pk.spec) /\ UNCHANGED <<creatable, faults, gk, warmer, stale>>
  BY DEF DefaultsSpec, WriteSpec, userVars
<1>2. ObjectsTypeOK' /\ \A q \in Platforms : InUse(q)' <=> InUse(q)
  BY <1>1, PlatformRequestTyped, SafeUpdate
<1>3. /\ pk' \in PlatformRequest /\ pk'.p = pk.p
      /\ TakesIntoUse' => TakesIntoUse
  <2>1. CASE DefaultsSpec
    BY <2>1, PlatformRequestTyped, AfterDefaultsOK DEF DefaultsSpec, TakesIntoUse
  <2>2. CASE WriteSpec
    BY <2>2, PlatformRequestTyped DEF WriteSpec, PlatformRequest, PlatformSteps, TakesIntoUse
  <2>. QED
    BY <2>1, <2>2
<1>4. PlatformTypeOK' /\ PatchHasTarget'
  BY <1>1, <1>2, <1>3 DEF PlatformInv, ObjectsTypeOK, PlatformTypeOK, PatchHasTarget
<1>5. RequestIsAlone' /\ OnlyOneActive'
  BY <1>1, <1>2, <1>3, NoMoreInUse
<1>. QED
  BY <1>4, <1>5 DEF PlatformInv

\* Nothing that leaves the platforms alone takes one into use.
LEMMA PlatformsAlone ==
  ASSUME PlatformInv, platform' = platform, stale' = stale,
         TakesIntoUse' => TakesIntoUse /\ pk'.p = pk.p
  PROVE  RequestIsAlone' /\ OnlyOneActive'
<1>1. \A q \in Platforms : InUse(q)' => InUse(q)
  BY DEF InUse
<1>. QED
  BY <1>1, NoMoreInUse

\* The warmer pod is deleted and created.
LEMMA WarmerPodStep ==
  ASSUME PlatformInv, DeleteWarmerPod \/ CreateWarmerPod, UNCHANGED ck
  PROVE  PlatformInv'
<1>1. UNCHANGED <<objectVars, creatable, faults, gk, stale>>
  BY DEF DeleteWarmerPod, CreateWarmerPod, userVars
<1>2. /\ pk' \in PlatformRequest /\ pk'.p = pk.p
      /\ TakesIntoUse' => TakesIntoUse
  <2>1. CASE DeleteWarmerPod
    BY <2>1, PlatformRequestTyped DEF DeleteWarmerPod, PlatformRequest, PlatformSteps, TakesIntoUse
  <2>2. CASE CreateWarmerPod
    <3>1. \/ pk' = [pk EXCEPT !.pc = "writeSpec", !.cond = Cond("False", "Warming")]
          \/ pk' = [pk EXCEPT !.pc = "done"]
      BY <2>2 DEF CreateWarmerPod
    <3>2. pk.pc = "createPod"
      BY <2>2 DEF CreateWarmerPod
    <3>3. pk' \in PlatformRequest /\ pk'.p = pk.p
      BY <3>1, PlatformRequestTyped, WrittenConditions DEF PlatformRequest, PlatformSteps
    <3>. QED
      BY <3>2, <3>3 DEF TakesIntoUse
  <2>. QED
    BY <2>1, <2>2
<1>3. warmer' \in [Platforms -> WarmerStates]
  BY PlatformRequestTyped DEF DeleteWarmerPod, CreateWarmerPod, PlatformTypeOK, WarmerStates
<1>4. PlatformTypeOK' /\ PatchHasTarget'
  BY <1>1, <1>2, <1>3 DEF PlatformInv, PlatformTypeOK, PatchHasTarget, objectVars
<1>5. RequestIsAlone' /\ OnlyOneActive'
  BY <1>1, <1>2, PlatformsAlone DEF objectVars
<1>. QED
  BY <1>4, <1>5 DEF PlatformInv

\* The request ends.
LEMMA PlatformEndStep ==
  ASSUME PlatformInv, PlatformError \/ PlatformDone, UNCHANGED ck
  PROVE  PlatformInv'
<1>1. /\ UNCHANGED <<platform, seen, cplatform, cseen, behind, creatable, gk, warmer, stale>>
      /\ pk' = IdlePlatform
  BY DEF PlatformError, PlatformDone, userVars
<1>2. pk' \in PlatformRequest /\ ~TakesIntoUse'
  BY <1>1, IdlePlatformOK DEF TakesIntoUse
<1>3. queued' \subseteq Platforms \cup ClusterPlatforms /\ faults' \in 0..MaxFaults
  BY PlatformRequestTyped, FaultOK DEF PlatformError, PlatformDone, PlatformTypeOK
<1>4. PlatformTypeOK' /\ PatchHasTarget'
  BY <1>1, <1>2, <1>3 DEF PlatformInv, PlatformTypeOK, PatchHasTarget
<1>5. RequestIsAlone' /\ OnlyOneActive'
  BY <1>1, <1>2, PlatformsAlone
<1>. QED
  BY <1>4, <1>5 DEF PlatformInv

-----------------------------------------------------------------------------
(* The callers of GetActivePlatform, warmer pods and the user.             *)

\* A write of somebody else that does not take the platform into use.
LEMMA OtherWrites ==
  ASSUME PlatformInv, NEW p \in Platforms, NEW new \in Platform,
         platform' = [platform EXCEPT ![p] = new], TakenIntoUse(new) => InUse(p),
         UNCHANGED <<pk, stale>>
  PROVE  RequestIsAlone' /\ OnlyOneActive'
<1>1. \A q \in Platforms : InUse(q)' => InUse(q)
  BY PutInUse DEF PlatformInv, PlatformTypeOK
<1>. QED
  BY <1>1, NoMoreInUse DEF TakesIntoUse

\* A new platform is not in use.
LEMMA NewPlatform ==
  ASSUME NEW spec \in Versions
  PROVE  LET new == [NoPlatform EXCEPT !.exists = TRUE, !.spec = spec]
         IN new \in Platform /\ ~TakenIntoUse(new)
<1>1. NilCond \in SucceedCondition /\ IsUnknown(NilCond)
  BY WrittenConditions DEF NilCond, Cond, IsUnknown
<1>. QED
  BY <1>1 DEF NoPlatform, Platform, TakenIntoUse

\* A place without a platform is not in use either.
LEMMA NoPlatformOK ==
  NoPlatform \in Platform /\ ~TakenIntoUse(NoPlatform)
<1>1. 0 \in Versions
  BY PlatformAssumption DEF Versions, PlatformAssumption
<1>. QED
  BY <1>1, WrittenConditions DEF NoPlatform, Platform, TakenIntoUse

\* GetActivePlatform creates the default platform, or sets it back.
LEMMA OtherControllersStep ==
  ASSUME PlatformInv, OtherControllers, UNCHANGED ck
  PROVE  PlatformInv'
<1>1. UNCHANGED <<creatable, pk, warmer, stale>> /\ PlatformTypeOK /\ ObjectsTypeOK
  BY PlatformRequestTyped DEF OtherControllers, GetActivePlatform, CreateDefault, OverwriteDefaultStatus,
     OverwriteDefaultSpec, GetActivePlatformError, userVars
<1>2. gk' \in GetSteps /\ faults' \in 0..MaxFaults
  BY <1>1, FaultOK DEF OtherControllers, GetActivePlatform, CreateDefault, OverwriteDefaultStatus,
     OverwriteDefaultSpec, GetActivePlatformError, PlatformTypeOK, GetSteps
<1>3. Default \in Platforms /\ 0 \in Versions /\ NilCond \in SucceedCondition /\ IsUnknown(NilCond)
  <2>1. 0 \in Versions
    BY PlatformAssumption DEF Versions, PlatformAssumption
  <2>2. IsUnknown(NilCond)
    BY DEF IsUnknown, NilCond, Cond
  <2>. QED
    BY <2>1, <2>2, Names, WrittenConditions
<1>4. ObjectsTypeOK' /\ RequestIsAlone' /\ OnlyOneActive'
  <2>1. CASE UNCHANGED objectVars
    <3>1. ObjectsTypeOK'
      BY <1>1, <2>1 DEF ObjectsTypeOK, objectVars
    <3>. QED
      BY <1>1, <2>1, <3>1, PlatformsAlone DEF objectVars, TakesIntoUse
  <2>2. CASE PutPlatform(Default, [NoPlatform EXCEPT !.exists = TRUE])
    <3>. DEFINE new == [NoPlatform EXCEPT !.exists = TRUE]
    <3>1. NoPlatform \in Platform /\ NoPlatform.cond = NilCond
      BY NoPlatformOK DEF NoPlatform
    <3>2. new \in Platform /\ ~TakenIntoUse(new)
      BY <1>3, <3>1 DEF Platform, TakenIntoUse
    <3>. HIDE DEF new
    <3>3. PutPlatform(Default, new)
      BY <2>2 DEF new
    <3>4. ObjectsTypeOK' /\ platform' = [platform EXCEPT ![Default] = new]
      BY <1>1, <1>3, <3>2, <3>3, PutPlatformOK
    <3>. QED
      BY <1>1, <1>3, <3>2, <3>4, OtherWrites
  <2>3. CASE SafeUpdatePlatformStatus(Default, NilCond, "none")
    <3>1. ObjectsTypeOK'
      BY <1>1, <1>3, <2>3, SafeUpdate
    <3>2. PICK new \in Platform : new.cond = NilCond /\ platform' = [platform EXCEPT ![Default] = new]
      BY <1>1, <1>3, <2>3, SafeUpdate
    <3>3. ~TakenIntoUse(new)
      BY <1>3, <3>2 DEF TakenIntoUse
    <3>. QED
      BY <1>1, <1>3, <3>1, <3>2, <3>3, OtherWrites
  <2>4. CASE SafeUpdatePlatform(Default, 0)
    <3>1. ObjectsTypeOK' /\ \A q \in Platforms : InUse(q)' <=> InUse(q)
      BY <1>1, <1>3, <2>4, SafeUpdate
    <3>. QED
      BY <1>1, <3>1, NoMoreInUse DEF TakesIntoUse
  <2>. QED
    BY <2>1, <2>2, <2>3, <2>4 DEF OtherControllers, GetActivePlatform, CreateDefault,
       OverwriteDefaultStatus, OverwriteDefaultSpec, GetActivePlatformError
<1>5. PlatformTypeOK' /\ PatchHasTarget'
  BY <1>1, <1>2, <1>4 DEF PlatformInv, ObjectsTypeOK, PlatformTypeOK, PatchHasTarget
<1>. QED
  BY <1>4, <1>5 DEF PlatformInv

\* Warmer pods come and go.
LEMMA WarmersStep ==
  ASSUME PlatformInv, Warmers, UNCHANGED ck
  PROVE  PlatformInv'
<1>1. UNCHANGED <<objectVars, creatable, pk, gk, stale>>
  BY DEF Warmers, WarmerFinishes, WarmerLost, WarmerGone, userVars
<1>2. warmer' \in [Platforms -> WarmerStates]
  BY DEF Warmers, WarmerFinishes, WarmerLost, WarmerGone, PlatformInv, PlatformTypeOK, WarmerStates
<1>3. faults' \in 0..MaxFaults
  BY FaultOK DEF Warmers, WarmerFinishes, WarmerLost, WarmerGone, PlatformInv, PlatformTypeOK
<1>4. PlatformTypeOK' /\ PatchHasTarget'
  BY <1>1, <1>2, <1>3 DEF PlatformInv, PlatformTypeOK, PatchHasTarget, objectVars
<1>5. RequestIsAlone' /\ OnlyOneActive'
  BY <1>1, PlatformsAlone DEF objectVars, TakesIntoUse
<1>. QED
  BY <1>4, <1>5 DEF PlatformInv

\* The user creates, edits and deletes platforms and cluster platforms.
LEMMA UserStep ==
  ASSUME PlatformInv, User, UNCHANGED ck
  PROVE  PlatformInv'
<1>1. UNCHANGED <<creatable, pk, gk, warmer, stale>> /\ PlatformTypeOK /\ ObjectsTypeOK
  BY PlatformRequestTyped DEF User, platformVars, UserCreatesPlatform, UserEditsPlatform, UserDeletesPlatform,
     UserCreatesClusterPlatform, UserDeletesClusterPlatform, userVars
<1>2. faults' \in 0..MaxFaults
  BY <1>1, FaultOK DEF User, UserCreatesPlatform, UserEditsPlatform, UserDeletesPlatform,
     UserCreatesClusterPlatform, UserDeletesClusterPlatform, PlatformTypeOK
<1>3. ASSUME NEW p \in Platforms, UserCreatesPlatform(p)
      PROVE  ObjectsTypeOK' /\ RequestIsAlone' /\ OnlyOneActive'
  <2>. DEFINE new == [NoPlatform EXCEPT !.exists = TRUE, !.spec = 1]
  <2>1. 1 \in Versions
    BY PlatformAssumption DEF Versions, PlatformAssumption
  <2>2. new \in Platform /\ ~TakenIntoUse(new)
    BY <2>1, NewPlatform
  <2>. HIDE DEF new
  <2>3. PutPlatform(p, new)
    BY <1>3 DEF UserCreatesPlatform, new
  <2>4. ObjectsTypeOK' /\ platform' = [platform EXCEPT ![p] = new]
    BY <1>1, <2>2, <2>3, PutPlatformOK
  <2>. QED
    BY <1>1, <2>2, <2>4, OtherWrites
<1>4. ASSUME NEW p \in Platforms, UserEditsPlatform(p)
      PROVE  ObjectsTypeOK' /\ RequestIsAlone' /\ OnlyOneActive'
  <2>. DEFINE new == [platform[p] EXCEPT !.spec = @ + 1]
  <2>1. platform[p] \in Platform /\ platform[p].spec + 1 \in Versions
    BY <1>1, <1>4, PlatformAssumption
       DEF UserEditsPlatform, PlatformTypeOK, Platform, Versions, PlatformAssumption
  <2>2. new \in Platform /\ new.exists = platform[p].exists /\ new.cond = platform[p].cond
    BY <2>1 DEF Platform
  <2>. HIDE DEF new
  <2>3. PutPlatform(p, new)
    BY <1>4 DEF UserEditsPlatform, new
  <2>4. ObjectsTypeOK' /\ platform' = [platform EXCEPT ![p] = new]
    BY <1>1, <2>2, <2>3, PutPlatformOK
  <2>5. TakenIntoUse(new) => InUse(p)
    BY <2>2 DEF TakenIntoUse, InUse, IsDuplicated
  <2>. QED
    BY <1>1, <2>2, <2>4, <2>5, OtherWrites
<1>5. ASSUME NEW p \in Platforms, UserDeletesPlatform(p)
      PROVE  ObjectsTypeOK' /\ RequestIsAlone' /\ OnlyOneActive'
  <2>1. PutPlatform(p, NoPlatform)
    BY <1>5 DEF UserDeletesPlatform
  <2>2. ObjectsTypeOK' /\ platform' = [platform EXCEPT ![p] = NoPlatform]
    BY <1>1, <2>1, PutPlatformOK, NoPlatformOK
  <2>. QED
    BY <1>1, <2>2, OtherWrites, NoPlatformOK
<1>6. ASSUME NEW c \in ClusterPlatforms, UserCreatesClusterPlatform(c) \/ UserDeletesClusterPlatform(c)
      PROVE  ObjectsTypeOK' /\ RequestIsAlone' /\ OnlyOneActive'
  <2>1. PICK new \in ClusterPlatform : PutClusterPlatform(c, new)
    <3>1. NoClusterPlatform \in ClusterPlatform
      BY Names, WrittenConditions DEF NoClusterPlatform, ClusterPlatform
    <3>2. CASE UserCreatesClusterPlatform(c)
      <4>1. PICK p \in Platforms : PutClusterPlatform(c, [NoClusterPlatform EXCEPT !.exists = TRUE, !.to = p])
        BY <3>2 DEF UserCreatesClusterPlatform
      <4>. DEFINE new == [NoClusterPlatform EXCEPT !.exists = TRUE, !.to = p]
      <4>2. new \in ClusterPlatform
        BY <3>1 DEF ClusterPlatform
      <4>3. PutClusterPlatform(c, new)
        BY <4>1
      <4>. HIDE DEF new
      <4>. QED
        BY <4>2, <4>3
    <3>3. CASE UserDeletesClusterPlatform(c)
      BY <3>1, <3>3 DEF UserDeletesClusterPlatform
    <3>. QED
      BY <1>6, <3>2, <3>3
  <2>2. ObjectsTypeOK' /\ UNCHANGED platform
    BY <1>1, <2>1, PutClusterPlatformOK
  <2>. QED
    BY <1>1, <2>2, PlatformsAlone DEF TakesIntoUse
<1>7. ObjectsTypeOK' /\ RequestIsAlone' /\ OnlyOneActive'
  BY <1>3, <1>4, <1>5, <1>6 DEF User
<1>8. PlatformTypeOK' /\ PatchHasTarget'
  BY <1>1, <1>2, <1>7 DEF PlatformInv, ObjectsTypeOK, PlatformTypeOK, PatchHasTarget
<1>. QED
  BY <1>7, <1>8 DEF PlatformInv

-----------------------------------------------------------------------------
(* The cluster platform controller, the informers and crashes.             *)

\* The cluster platform controller leaves the platforms alone.
LEMMA ClusterPlatformStep ==
  ASSUME PlatformInv, ClusterPlatformController, UNCHANGED platformVars
  PROVE  PlatformInv'
<1>1. UNCHANGED <<platform, seen, creatable, pk, gk, warmer, stale>>
  BY DEF ClusterPlatformController, ClusterStart, ClusterPatch, ClusterPatchError, StoreClusterPlatform,
         userVars, platformVars
<1>2. /\ PlatformTypeOK /\ ObjectsTypeOK
      /\ ck \in ClusterPlatformRequest /\ ck.cond \in SucceedCondition
      /\ ck.pc = "patch" => ck.c \in ClusterPlatforms
  BY PlatformRequestTyped DEF PlatformInv, PatchHasTarget, PlatformTypeOK, ClusterPlatformRequest
<1>3. faults' \in 0..MaxFaults
  BY <1>2, FaultOK DEF ClusterPlatformController, ClusterStart, ClusterPatch, ClusterPatchError, PlatformTypeOK
<1>4. IdleClusterPlatform \in ClusterPlatformRequest /\ IdleClusterPlatform.pc = "idle"
  BY WrittenConditions DEF IdleClusterPlatform, ClusterPlatformRequest
<1>5. ObjectsTypeOK' /\ ck' \in ClusterPlatformRequest /\ PatchHasTarget'
  <2>1. ASSUME NEW c \in ClusterPlatforms, ClusterStart(c)
        PROVE  ObjectsTypeOK' /\ ck' \in ClusterPlatformRequest /\ PatchHasTarget'
    <3>. DEFINE read == InitializedCond(cseen[c].cond)
                cond == IF ClusterIsPrimaryDuplicate(c) THEN Duplicated ELSE Followed(seen[cseen[c].to])
                patch == [pc |-> "patch", c |-> c, read |-> read, cond |-> cond, failed |-> FALSE]
                failed == [patch EXCEPT !.cond = Cond("False", "Failure"), !.failed = TRUE]
    <3>1. read \in SucceedCondition /\ cond \in SucceedCondition
      BY <1>2, InitializedCondOK, WrittenConditions DEF ObjectsTypeOK, ClusterPlatform
    <3>2. /\ patch \in ClusterPlatformRequest /\ patch.c = c
          /\ failed \in ClusterPlatformRequest /\ failed.c = c
      <4>. HIDE DEF read, cond
      <4>. QED
        BY <3>1, WrittenConditions DEF ClusterPlatformRequest
    <3>3. ck' = patch \/ ck' = failed \/ ck' = ck
      BY <2>1 DEF ClusterStart
    <3>. HIDE DEF patch, failed
    <3>4. ck' \in ClusterPlatformRequest /\ PatchHasTarget'
      BY <1>2, <3>2, <3>3 DEF PatchHasTarget
    <3>5. PICK new \in {cplatform[c], Configured(c)} : StoreClusterPlatform(c, new, queued \ {c})
      BY <2>1 DEF ClusterStart
    <3>6. new \in ClusterPlatform /\ queued \ {c} \in SUBSET (Platforms \cup ClusterPlatforms)
      BY <1>2 DEF Configured, ObjectsTypeOK, ClusterPlatform
    <3>7. ObjectsTypeOK'
      BY <1>2, <3>5, <3>6, StoreClusterPlatformOK
    <3>. QED
      BY <3>4, <3>7
  <2>2. CASE ClusterPatch
    <3>. DEFINE c == ck.c
                new == Patched(cplatform[c])
    <3>1. c \in ClusterPlatforms /\ cplatform[c] \in ClusterPlatform
      BY <1>2, <2>2 DEF ClusterPatch, ObjectsTypeOK
    <3>2. new \in ClusterPlatform
      BY <1>2, <3>1 DEF Patched, ClusterPlatform
    <3>3. PICK q \in {queued, queued \cup {c}} : StoreClusterPlatform(c, new, q)
      BY <2>2 DEF ClusterPatch
    <3>4. q \in SUBSET (Platforms \cup ClusterPlatforms)
      BY <1>2, <3>1 DEF ObjectsTypeOK
    <3>. HIDE DEF new, c
    <3>5. ObjectsTypeOK'
      BY <1>2, <3>1, <3>2, <3>3, <3>4, StoreClusterPlatformOK
    <3>. QED
      BY <1>4, <2>2, <3>5 DEF ClusterPatch, PatchHasTarget
  <2>3. CASE ClusterPatchError
    <3>1. /\ UNCHANGED <<cplatform, cseen, behind>> /\ ck' = IdleClusterPlatform
          /\ queued' \subseteq Platforms \cup ClusterPlatforms
      BY <1>2, <2>3 DEF ClusterPatchError, ObjectsTypeOK
    <3>2. ObjectsTypeOK'
      BY <1>1, <1>2, <3>1 DEF ObjectsTypeOK
    <3>. QED
      BY <1>4, <3>1, <3>2 DEF PatchHasTarget
  <2>. QED
    BY <2>1, <2>2, <2>3 DEF ClusterPlatformController
<1>6. PlatformTypeOK'
  BY <1>1, <1>2, <1>3, <1>5 DEF ObjectsTypeOK, PlatformTypeOK
<1>7. RequestIsAlone' /\ OnlyOneActive'
  BY <1>1, PlatformsAlone DEF TakesIntoUse
<1>. QED
  BY <1>5, <1>6, <1>7 DEF PlatformInv

\* So do the informers.
LEMMA DeliverStep ==
  ASSUME PlatformInv, NEW o \in Platforms \cup ClusterPlatforms, Deliver(o)
  PROVE  PlatformInv'
<1>1. UNCHANGED <<creatable, faults, pk, gk, warmer, stale, ck>>
  BY DEF Deliver, userVars, platformVars
<1>2. ObjectsTypeOK' /\ UNCHANGED platform
  BY PlatformRequestTyped, DeliverOK DEF Deliver
<1>3. PlatformTypeOK' /\ PatchHasTarget'
  BY <1>1, <1>2 DEF PlatformInv, ObjectsTypeOK, PlatformTypeOK, PatchHasTarget
<1>4. RequestIsAlone' /\ OnlyOneActive'
  BY <1>1, <1>2, PlatformsAlone DEF TakesIntoUse
<1>. QED
  BY <1>3, <1>4 DEF PlatformInv

\* A crash ends the requests.
LEMMA PlatformCrashStep ==
  ASSUME PlatformInv, PlatformCrash
  PROVE  PlatformInv'
<1>1. /\ UNCHANGED <<platform, cplatform, creatable, warmer, stale>>
      /\ pk' = IdlePlatform /\ ck' = IdleClusterPlatform /\ gk' = "idle"
      /\ seen' = platform /\ cseen' = cplatform /\ behind' = {}
      /\ queued' \subseteq Platforms \cup ClusterPlatforms
  BY DEF PlatformCrash, userVars
<1>2. faults' \in 0..MaxFaults
  BY FaultOK DEF PlatformCrash, PlatformInv, PlatformTypeOK
<1>3. /\ ck' \in ClusterPlatformRequest /\ ck'.pc = "idle"
      /\ pk' \in PlatformRequest /\ pk'.pc = "idle" /\ gk' \in GetSteps
  BY <1>1, IdlePlatformOK, WrittenConditions DEF IdleClusterPlatform, ClusterPlatformRequest, GetSteps
<1>4. PlatformTypeOK'
  BY <1>1, <1>2, <1>3 DEF PlatformInv, PlatformTypeOK
<1>5. PatchHasTarget' /\ ~TakesIntoUse'
  BY <1>3 DEF PatchHasTarget, TakesIntoUse
<1>6. RequestIsAlone' /\ OnlyOneActive'
  BY <1>1, <1>5, PlatformsAlone
<1>. QED
  BY <1>4, <1>5, <1>6 DEF PlatformInv

-----------------------------------------------------------------------------
(* The theorems.                                                           *)

\* The invariant holds before there is any platform.
LEMMA InitPlatform ==
  ASSUME SystemInit
  PROVE  PlatformInv
<1>1. NoPlatform \in Platform /\ ~NoPlatform.exists
  BY NoPlatformOK DEF NoPlatform
<1>2. NoClusterPlatform \in ClusterPlatform
  BY Names, WrittenConditions DEF NoClusterPlatform, ClusterPlatform
<1>3. /\ platform \in [Platforms -> Platform] /\ seen \in [Platforms -> Platform]
      /\ \A p \in Platforms : ~platform[p].exists
  BY <1>1 DEF SystemInit, ObjectsInit
<1>4. cplatform \in [ClusterPlatforms -> ClusterPlatform] /\ cseen \in [ClusterPlatforms -> ClusterPlatform]
  BY <1>2 DEF SystemInit, ObjectsInit
<1>5. faults \in 0..MaxFaults
  BY PlatformAssumption DEF SystemInit, ObjectsInit, PlatformAssumption
<1>6. pk \in PlatformRequest /\ pk.pc = "idle"
  BY IdlePlatformOK DEF SystemInit, PlatformInit
<1>7. ck \in ClusterPlatformRequest /\ ck.pc = "idle"
  BY WrittenConditions DEF SystemInit, IdleClusterPlatform, ClusterPlatformRequest
<1>8. warmer \in [Platforms -> WarmerStates]
  BY DEF SystemInit, PlatformInit, WarmerStates
<1>9. PlatformTypeOK
  BY <1>3, <1>4, <1>5, <1>6, <1>7, <1>8
     DEF SystemInit, ObjectsInit, PlatformInit, GetSteps, PlatformTypeOK
<1>10. PatchHasTarget /\ RequestIsAlone
  BY <1>6, <1>7 DEF PatchHasTarget, RequestIsAlone, TakesIntoUse
<1>11. OnlyOneActive
  BY <1>3 DEF OnlyOneActive, InUse, Primary
<1>. QED
  BY <1>9, <1>10, <1>11 DEF PlatformInv

\* Every step keeps it.
LEMMA PlatformStep ==
  ASSUME PlatformInv, [SystemNext]_systemVars
  PROVE  PlatformInv'
<1>1. CASE PlatformController /\ UNCHANGED ck
  BY <1>1, PlatformStartStep, StatusStep, SpecStep, WarmerPodStep, PlatformEndStep DEF PlatformController
<1>2. CASE UNCHANGED systemVars
  <2>1. UNCHANGED <<platform, pk, stale, ck>> /\ PlatformTypeOK'
    BY <1>2 DEF systemVars, objectVars, userVars, platformVars, PlatformInv, PlatformTypeOK
  <2>2. RequestIsAlone' /\ OnlyOneActive' /\ PatchHasTarget'
    BY <2>1, PlatformsAlone DEF TakesIntoUse, PatchHasTarget, PlatformInv
  <2>. QED
    BY <2>1, <2>2 DEF PlatformInv
<1>. QED
  BY <1>1, <1>2, ClusterPlatformStep, OtherControllersStep, WarmersStep, UserStep, DeliverStep,
     PlatformCrashStep DEF SystemNext

\* The invariant holds in every behaviour.
THEOREM PlatformInvariance == SystemSpec => []PlatformInv
<1>1. SystemInit => PlatformInv
  BY InitPlatform
<1>2. PlatformInv /\ [SystemNext]_systemVars => PlatformInv'
  BY PlatformStep
<1>. QED
  BY <1>1, <1>2, PTL DEF SystemSpec

\* Every variable of the two controllers and of what they share keeps its
\* type, whatever the platforms and cluster platforms.
THEOREM PlatformTypeCorrect == SystemSpec => []PlatformTypeOK
<1>1. PlatformInv => PlatformTypeOK
  BY DEF PlatformInv
<1>. QED
  BY <1>1, PlatformInvariance, PTL

\* listPrimaryPlatforms: of the primary platforms of a namespace only one is
\* in use, for any number of them, as long as no request initialised a
\* platform on a cached list that was out of date.
THEOREM OnlyOneActiveTheorem == SystemSpec => []OnlyOneActive
<1>1. PlatformInv => OnlyOneActive
  BY DEF PlatformInv
<1>. QED
  BY <1>1, PlatformInvariance, PTL

-----------------------------------------------------------------------------
(* Without lag: the history variable is needed for old lists only.         *)

\* A cached platform that is not behind is the server's.
CacheIsCurrent == \A p \in Platforms \ behind : seen[p] = platform[p]

\* A write updates the cache, or puts the platform behind.
LEMMA PutKeepsCache ==
  ASSUME PlatformTypeOK, CacheIsCurrent, NEW p \in Platforms, NEW new, PutPlatform(p, new)
  PROVE  CacheIsCurrent'
<1>1. /\ platform \in [Platforms -> Platform] /\ seen \in [Platforms -> Platform]
      /\ behind \subseteq Lagging
  BY DEF PlatformTypeOK
<1>2. platform' = [platform EXCEPT ![p] = new]
  BY DEF PutPlatform
<1>3. CASE new = platform[p]
  <2>1. platform' = platform /\ UNCHANGED <<seen, behind>>
    BY <1>1, <1>2, <1>3 DEF PutPlatform
  <2>. QED
    BY <2>1 DEF CacheIsCurrent
<1>4. CASE new # platform[p] /\ p \in Lagging
  <2>1. behind' = behind \cup {p} /\ seen' = seen
    BY <1>4 DEF PutPlatform
  <2>. QED
    BY <1>1, <1>2, <2>1 DEF CacheIsCurrent
<1>5. CASE new # platform[p] /\ p \notin Lagging
  <2>1. behind' = behind /\ seen' = [seen EXCEPT ![p] = new]
    BY <1>5 DEF PutPlatform
  <2>. QED
    BY <1>1, <1>2, <2>1 DEF CacheIsCurrent
<1>. QED
  BY <1>3, <1>4, <1>5

\* Every step but a start keeps the cache and the history; a start decides on
\* an old list only if some cached platform is behind.
LEMMA CacheStep ==
  ASSUME PlatformInv, CacheIsCurrent, [SystemNext]_systemVars
  PROVE  /\ CacheIsCurrent'
         /\ Lagging \cap Platforms = {} /\ ~stale => ~stale'
<1>1. /\ PlatformTypeOK /\ behind \subseteq Lagging /\ pk.p \in Platforms /\ Default \in Platforms
  BY PlatformRequestTyped, Names DEF PlatformTypeOK
<1>2. ASSUME UNCHANGED <<platform, seen, behind>>
      PROVE  CacheIsCurrent'
  BY <1>2 DEF CacheIsCurrent
<1>3. CASE PlatformController /\ UNCHANGED ck
  <2>1. ASSUME NEW p \in Platforms, PlatformStart(p)
        PROVE  /\ CacheIsCurrent'
               /\ Lagging \cap Platforms = {} /\ ~stale => ~stale'
    <3>1. CacheIsCurrent'
      BY <1>2, <2>1 DEF PlatformStart
    <3>2. ASSUME Lagging \cap Platforms = {}
          PROVE  IsPrimaryDuplicate(p) <=> DuplicateIn(platform, p)
      <4>1. \A q \in Platforms : seen[q] = platform[q]
        BY <1>1, <3>2 DEF CacheIsCurrent
      <4>. QED
        BY <4>1 DEF IsPrimaryDuplicate, DuplicateIn, Primary
    <3>3. IsPrimaryDuplicate(p) \in BOOLEAN /\ DuplicateIn(platform, p) \in BOOLEAN
      BY DEF IsPrimaryDuplicate, DuplicateIn
    <3>. QED
      BY <2>1, <3>1, <3>2, <3>3 DEF PlatformStart
  <2>2. CASE DefaultsStatus \/ WriteStatus \/ DefaultsSpec \/ WriteSpec
    <3>1. \E new : PutPlatform(pk.p, new)
      BY <2>2 DEF DefaultsStatus, WriteStatus, DefaultsSpec, WriteSpec,
                  SafeUpdatePlatform, SafeUpdatePlatformStatus
    <3>2. stale' = stale
      BY <2>2 DEF DefaultsStatus, WriteStatus, DefaultsSpec, WriteSpec
    <3>. QED
      BY <1>1, <3>1, <3>2, PutKeepsCache
  <2>3. CASE DeleteWarmerPod \/ CreateWarmerPod \/ PlatformError \/ PlatformDone
    BY <1>2, <2>3 DEF DeleteWarmerPod, CreateWarmerPod, PlatformError, PlatformDone, objectVars
  <2>. QED
    BY <1>3, <2>1, <2>2, <2>3 DEF PlatformController
<1>4. CASE OtherControllers
  <2>1. UNCHANGED objectVars \/ \E new : PutPlatform(Default, new)
    BY <1>4 DEF OtherControllers, GetActivePlatform, CreateDefault, OverwriteDefaultStatus,
                OverwriteDefaultSpec, GetActivePlatformError, SafeUpdatePlatform, SafeUpdatePlatformStatus
  <2>2. stale' = stale
    BY <1>4 DEF OtherControllers, GetActivePlatform, CreateDefault, OverwriteDefaultStatus,
                OverwriteDefaultSpec, GetActivePlatformError
  <2>. QED
    BY <1>1, <1>2, <2>1, <2>2, PutKeepsCache DEF objectVars
<1>5. CASE User
  <2>1. \/ \E p \in Platforms : \E new : PutPlatform(p, new)
        \/ \E c \in ClusterPlatforms : \E new : PutClusterPlatform(c, new)
    BY <1>5 DEF User, UserCreatesPlatform, UserEditsPlatform, UserDeletesPlatform,
                UserCreatesClusterPlatform, UserDeletesClusterPlatform
  <2>2. ASSUME NEW c \in ClusterPlatforms, NEW new, PutClusterPlatform(c, new)
        PROVE  CacheIsCurrent'
    BY <2>2 DEF PutClusterPlatform, StoreClusterPlatform, CacheIsCurrent
  <2>3. stale' = stale
    BY <1>5 DEF User, platformVars
  <2>. QED
    BY <1>1, <2>1, <2>2, <2>3, PutKeepsCache
<1>6. ASSUME NEW o \in Platforms \cup ClusterPlatforms, Deliver(o)
      PROVE  CacheIsCurrent' /\ stale' = stale
  <2>1. CASE o \in Platforms /\ DeliverPlatform(o)
    BY <1>1, <1>6, <2>1 DEF Deliver, DeliverPlatform, PlatformTypeOK, CacheIsCurrent, platformVars
  <2>2. CASE o \in ClusterPlatforms /\ DeliverClusterPlatform(o)
    BY <1>1, <1>6, <2>2, Names DEF Deliver, DeliverClusterPlatform, CacheIsCurrent, platformVars
  <2>. QED
    BY <1>6, <2>1, <2>2 DEF Deliver
<1>7. CASE PlatformCrash
  BY <1>7 DEF PlatformCrash, CacheIsCurrent
<1>8. CASE ClusterPlatformController /\ UNCHANGED platformVars
  <2>1. UNCHANGED <<platform, seen, stale>> /\ behind \subseteq behind'
    BY <1>8 DEF ClusterPlatformController, ClusterStart, ClusterPatch, ClusterPatchError,
         StoreClusterPlatform, platformVars
  <2>. QED
    BY <2>1 DEF CacheIsCurrent
<1>9. CASE Warmers
  BY <1>2, <1>9 DEF Warmers, WarmerFinishes, WarmerLost, WarmerGone, objectVars
<1>10. CASE UNCHANGED systemVars
  BY <1>2, <1>10 DEF systemVars, objectVars, platformVars
<1>. QED
  BY <1>3, <1>4, <1>5, <1>6, <1>7, <1>8, <1>9, <1>10 DEF SystemNext

\* The cached list is out of date only because a watch lags: if none of the
\* platforms' does, no decision is ever made on an old list and only one
\* primary platform is in use in every state (initializeAction,
\* isPrimaryDuplicate).
THEOREM OnlyOneActiveWithoutLag ==
  ASSUME Lagging \cap Platforms = {}
  PROVE  SystemSpec => [](~stale /\ \A p, q \in Primary(Platforms) : InUse(p) /\ InUse(q) => p = q)
<1>. DEFINE Inv == PlatformInv /\ CacheIsCurrent /\ ~stale
<1>1. SystemInit => Inv
  <2>1. SystemInit => CacheIsCurrent /\ ~stale
    BY DEF SystemInit, ObjectsInit, PlatformInit, CacheIsCurrent
  <2>. QED
    BY <2>1, InitPlatform
<1>2. Inv /\ [SystemNext]_systemVars => Inv'
  BY PlatformStep, CacheStep
<1>3. Inv => ~stale /\ \A p, q \in Primary(Platforms) : InUse(p) /\ InUse(q) => p = q
  BY DEF PlatformInv, OnlyOneActive
<1>. QED
  BY <1>1, <1>2, <1>3, PTL DEF SystemSpec
=============================================================================
