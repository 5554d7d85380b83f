--------------------------- MODULE OpenShiftProofs --------------------------
(***************************************************************************)
(* Proofs about OpenShiftBuild, for every number of versions, OpenShift    *)
(* builds and events, and that it implements BuildLifecycle.               *)
(***************************************************************************)
EXTENDS OpenShiftBuild, SequenceTheorems, TLAPS

\* The phases in which a build follows an OpenShift build.
Following == BuildPhases \ {"None", "Initialization"}

\* The OpenShift build i, of which the cache has state, ended since the build
\* began with the result it has.
CountedAs(i, state) ==
  /\ state = "Complete" => <<"succeeded", openshift[i].version>> \in ended
  /\ state \in {"Failed", "Error", "Cancelled"} => <<"failed", openshift[i].version>> \in ended

\* What the cache has of the OpenShift build i is counted.
Counted(i) == CountedAs(i, listed[i])

\* What a status that follows an OpenShift build says of it: there is one,
\* its end has been counted, and so has the result that the status reports.
StatusHolds(b) ==
  b.phase \in Following =>
    /\ b.inner \in Started
    /\ Counted(b.inner)
    /\ b.phase = "Succeeded" => <<"succeeded", openshift[b.inner].version>> \in ended
    /\ b.phase \in {"Failed", "Error"} => <<"failed", openshift[b.inner].version>> \in ended

\* What is built is the version of the workflow that was last asked for, or a
\* later one.
StatusIsCurrent(b) ==
  b.phase \in Following /\ ~b.restart /\ ~overtaken => openshift[b.inner].version >= wanted

\* The status may leave the OpenShift build i: it is over or was overlooked.
MayLeave(i) == i \in Active => i \in overlooked

\* What a request found of the OpenShift build of the build in its hand.
FoundHolds ==
  /\ request.found \in ActiveStates => build.inner \in Started /\ Counted(build.inner)
  /\ request.found \notin ActiveStates => MayLeave(build.inner)

\* A request that may still be written has the server's build in hand, up to
\* what it is about to write.
RequestInv ==
  request.fresh =>
    /\ request.pc \in {"schedule", "push", "reconcile", "annotation"} => request.build = build
    /\ request.pc \in {"scheduleStatus", "reconcileStatus"} => request.build.restart = build.restart
    /\ request.pc \in {"schedule", "scheduleStatus"} => build.phase = "None" \/ build.restart
    /\ request.pc = "scheduleStatus" =>
         request.build.phase = "Initialization" /\ request.build.inner = build.inner
    /\ request.pc = "annotation" => build.phase = "Initialization"
    /\ request.pc = "push" => build.phase = "Initialization" /\ ~build.restart
    /\ request.pc \in {"reconcile", "reconcileStatus"} =>
         ~build.restart /\ build.phase \notin Terminal \cup {"None"}
    /\ request.pc = "reconcile" => build.phase \in Following /\ CountedAs(build.inner, request.found)
    /\ request.pc \in {"push", "reconcile"} => FoundHolds
    /\ request.pc = "reconcileStatus" =>
         /\ request.build.phase # "Initialization"
         /\ StatusHolds(request.build) /\ StatusIsCurrent(request.build)
         /\ request.build.inner = build.inner \/ MayLeave(build.inner)

\* The cache knows of no OpenShift build that has not been started, and of no
\* end that has not come.
CacheInv ==
  \A i \in 1..MaxBuilds :
    /\ i \notin Started => listed[i] = "gone"
    /\ listed[i] \in EndedStates => i \notin Active

\* The invariant.
OpenShiftInv ==
  /\ OpenShiftTypeOK /\ openshift \in Seq(OpenShiftBuild) /\ wanted <= version
  /\ fresh => seen = build
  /\ {build.inner, seen.inner, request.build.inner} \subseteq Started \cup {0}
  /\ StatusHolds(build) /\ StatusIsCurrent(build)
  /\ RequestInv
  /\ CacheInv
  /\ OneBuildFollowed

-----------------------------------------------------------------------------
(* Facts about the builds of a BuildConfig.                                *)

\* A sequence has the numbers up to its length as domain.
LEMMA StartedIs ==
  ASSUME openshift \in Seq(OpenShiftBuild)
  PROVE  /\ Started = 1..Len(openshift) /\ Len(openshift) \in Nat
         /\ \A i \in Started : openshift[i] \in OpenShiftBuild
BY DEF Started

\* The matrix names a phase for every state, and never Initialization.
LEMMA MatrixPhases ==
  ASSUME NEW s \in OpenShiftStates
  PROVE  /\ openshiftBuildPhaseMatrix[s] \in BuildPhases \ {"Initialization"}
         /\ openshiftBuildPhaseMatrix[s] = "Succeeded" => s = "Complete"
         /\ openshiftBuildPhaseMatrix[s] \in {"Failed", "Error"} => s \in {"Failed", "Error"}
         /\ openshiftBuildPhaseMatrix[s] = "None" <=> s = "gone"
BY DEF openshiftBuildPhaseMatrix, OpenShiftStates, ActiveStates, EndedStates, BuildPhases

\* What the cache has of an OpenShift build, which is nothing of none.
LEMMA StateOfIs ==
  ASSUME OpenShiftInv, NEW i
  PROVE  /\ StateOf(i) \in OpenShiftStates
         /\ StateOf(i) # "gone" => i \in Started /\ listed[i] = StateOf(i)
         /\ StateOf(i) \in EndedStates => i \notin Active
<1>1. Started \subseteq 1..MaxBuilds
  BY StartedIs, OpenShiftAssumption DEF OpenShiftInv, OpenShiftTypeOK
<1>2. CASE i \in Started
  BY <1>1, <1>2 DEF StateOf, OpenShiftInv, OpenShiftTypeOK, CacheInv
<1>3. CASE i \notin Started
  BY <1>3 DEF StateOf, OpenShiftStates, EndedStates
<1> QED BY <1>2, <1>3

\* A build that has been pushed is the last one, and the others stay.
LEMMA PushedBuilds ==
  ASSUME openshift \in Seq(OpenShiftBuild), NEW b \in OpenShiftBuild, openshift' = Append(openshift, b)
  PROVE  /\ openshift' \in Seq(OpenShiftBuild) /\ Len(openshift') = Len(openshift) + 1
         /\ openshift'[Len(openshift')] = b
         /\ Started' = Started \cup {Len(openshift')} /\ Len(openshift') \notin Started
         /\ \A i \in Started : openshift'[i] = openshift[i]
<1>1. openshift' \in Seq(OpenShiftBuild) /\ Len(openshift') = Len(openshift) + 1
      /\ openshift'[Len(openshift')] = b /\ \A i \in 1..Len(openshift) : openshift'[i] = openshift[i]
  BY AppendProperties
<1>2. Started = 1..Len(openshift) /\ Len(openshift) \in Nat /\ Started' = 1..Len(openshift')
  BY <1>1, StartedIs DEF Started
<1> QED BY <1>1, <1>2

\* A build that changes its state leaves the others as they are.
LEMMA ChangedBuild ==
  ASSUME openshift \in Seq(OpenShiftBuild), NEW i \in Started, NEW s \in OpenShiftStates,
         openshift' = [openshift EXCEPT ![i].state = s]
  PROVE  /\ openshift' \in Seq(OpenShiftBuild) /\ Len(openshift') = Len(openshift)
         /\ Started' = Started
         /\ openshift'[i].state = s
         /\ \A j \in Started : openshift'[j].version = openshift[j].version
         /\ \A j \in Started \ {i} : openshift'[j] = openshift[j]
<1>1. [openshift[i] EXCEPT !.state = s] \in OpenShiftBuild
  BY StartedIs DEF OpenShiftBuild
<1>2. openshift' = [openshift EXCEPT ![i] = [openshift[i] EXCEPT !.state = s]]
  OBVIOUS
<1>3. openshift' \in Seq(OpenShiftBuild) /\ Len(openshift') = Len(openshift)
  BY <1>1, <1>2, ExceptSeq, StartedIs
<1>4. openshift'[i] = [openshift[i] EXCEPT !.state = s] /\ \A j \in Started \ {i} : openshift'[j] = openshift[j]
  BY <1>2 DEF Started
<1>5. Started' = Started
  BY <1>2 DEF Started
<1> QED BY <1>1, <1>3, <1>4, <1>5, StartedIs DEF OpenShiftBuild

-----------------------------------------------------------------------------
(* The invariant, one lemma per action.                                    *)

\* An event is counted and stays within its bound.
LEMMA EventCounted ==
  ASSUME events \in 0..MaxEvents
  PROVE  /\ Event => events' \in 0..MaxEvents
         /\ \A kind : Fault(kind) => events' \in 0..MaxEvents
BY OpenShiftAssumption DEF Event, Fault

\* Having nothing to do is a state of a request.
LEMMA IdleOK == IdleRequest \in BuildRequest /\ IdleRequest.build = NewBuild
BY OpenShiftAssumption
  DEF IdleRequest, NewBuild, BuildRequest, RequestSteps, Build, BuildPhases, OpenShiftStates

\* Over the same OpenShift builds and results a status says the same.
LEMMA StatusKept ==
  ASSUME NEW b, UNCHANGED <<openshift, listed, ended>>, StatusHolds(b)
  PROVE  StatusHolds(b)'
BY DEF StatusHolds, Counted, CountedAs, Started

\* Without a write there is nothing new to check.
LEMMA ServerKept ==
  ASSUME OpenShiftInv, UNCHANGED <<build, openshift, listed, ended, wanted, overtaken>>
  PROVE  /\ StatusHolds(build)' /\ StatusIsCurrent(build)' /\ CacheInv'
         /\ Started' = Started /\ Active' = Active
         /\ UNCHANGED <<orphans, overlooked>> => OneBuildFollowed'
<1>1. Started' = Started /\ Active' = Active
  BY DEF Started, Active
<1>2. StatusHolds(build)' /\ StatusIsCurrent(build)'
  BY StatusKept DEF OpenShiftInv, StatusIsCurrent
<1> QED BY <1>1, <1>2 DEF OpenShiftInv, CacheInv, OneBuildFollowed

\* The watch only brings the cache up to date.
LEMMA DeliverStep ==
  ASSUME OpenShiftInv, Deliver
  PROVE  OpenShiftInv'
<1> USE DEF OpenShiftInv, OpenShiftTypeOK, historyVars, workflowVars, openshiftVars
<1>1. /\ UNCHANGED <<build, request, version, wanted, openshift, listed, ended, orphans, overlooked,
                     overtaken, events>>
      /\ seen' = build /\ fresh' = TRUE /\ queued' = TRUE
  BY DEF Deliver
<1>2. RequestInv'
  BY <1>1 DEF RequestInv, FoundHolds, MayLeave, StatusHolds, Counted, CountedAs, StatusIsCurrent,
              Started, Active
<1> QED BY <1>1, <1>2, ServerKept

\* A request reads the cached build; one that may be written reads the
\* server's, and finds what the cache has of its OpenShift build.
LEMMA StartStep ==
  ASSUME OpenShiftInv, Start
  PROVE  OpenShiftInv'
<1> USE DEF OpenShiftInv, OpenShiftTypeOK, historyVars, workflowVars, openshiftVars
<1> DEFINE fetches == NextStep(seen) \in {"push", "reconcile"}
           found == IF fetches THEN StateOf(seen.inner) ELSE "gone"
           new == [pc |-> NextStep(seen), build |-> seen, fresh |-> fresh, found |-> found]
<1>1. events' \in 0..MaxEvents
  BY EventCounted DEF Start
<1>2. /\ UNCHANGED <<build, seen, fresh, version, wanted, openshift, listed, ended, orphans, overtaken>>
      /\ queued' = FALSE /\ request.pc = "idle"
      /\ request' = IF NextStep(seen) = "idle" THEN request ELSE new
      /\ overlooked' = IF fetches /\ found = "gone" THEN overlooked \cup (Active \cap {seen.inner})
                       ELSE overlooked
  BY DEF Start
<1>3. found \in OpenShiftStates /\ (found # "gone" => seen.inner \in Started /\ listed[seen.inner] = found)
      /\ (found \in EndedStates => seen.inner \notin Active)
  BY StateOfIs DEF OpenShiftStates, EndedStates
<1>4. NextStep(seen) \in RequestSteps
  BY DEF NextStep, RequestSteps
<1>5. /\ new \in BuildRequest /\ new.build = seen /\ new.fresh = fresh /\ new.found = found
      /\ new.pc = NextStep(seen)
  BY <1>3, <1>4 DEF BuildRequest
<1>6. overlooked \subseteq overlooked' /\ overlooked' \subseteq Started
  BY <1>2 DEF Active
<1>7. fetches => (found \notin ActiveStates => (seen.inner \in Active => seen.inner \in overlooked'))
  BY <1>2, <1>3 DEF OpenShiftStates, EndedStates
<1> HIDE DEF new, found
<1>8. RequestInv'
  <2>1. CASE request' = request
    BY <1>2, <2>1 DEF RequestInv
  <2>2. CASE request' = new /\ fresh
    <3>1. seen = build /\ request'.build = build /\ request'.found = found /\ request'.pc = NextStep(seen)
      BY <1>5, <2>2
    <3>2. Active' = Active /\ Started' = Started
      BY <1>2 DEF Active, Started
    <3>3. fetches => FoundHolds'
      BY <1>2, <1>3, <1>7, <3>1, <3>2 DEF FoundHolds, MayLeave, Counted, CountedAs, ActiveStates
    <3>4. /\ NextStep(seen) = "schedule" => seen.phase = "None" \/ seen.restart
          /\ NextStep(seen) = "push" => seen.phase = "Initialization" /\ ~seen.restart
          /\ NextStep(seen) = "reconcile" =>
               ~seen.restart /\ seen.phase \notin Terminal \cup {"None", "Initialization"}
          /\ NextStep(seen) \in {"schedule", "push", "reconcile", "idle"}
      BY DEF NextStep
    <3>5. seen.phase \in BuildPhases
      BY DEF Build
    <3>6. seen.phase \in Following /\ fetches => CountedAs(build.inner, request.found)'
      BY <1>2, <1>3, <3>1, <3>2 DEF StatusHolds, Counted, CountedAs
    <3> QED BY <1>2, <3>1, <3>3, <3>4, <3>5, <3>6 DEF RequestInv, Following
  <2>3. CASE request' = new /\ ~fresh
    BY <1>5, <2>3 DEF RequestInv
  <2> QED BY <1>2, <2>1, <2>2, <2>3
<1>9. request' \in BuildRequest /\ request'.build \in {request.build, seen}
  BY <1>2, <1>5
<1>10. OneBuildFollowed'
  BY <1>2, <1>6, ServerKept DEF OneBuildFollowed
<1> QED BY <1>1, <1>2, <1>6, <1>8, <1>9, <1>10, ServerKept

\* Schedule: the copy at hand begins.
LEMMA ScheduleStep ==
  ASSUME OpenShiftInv, Schedule
  PROVE  OpenShiftInv'
<1> USE DEF OpenShiftInv, OpenShiftTypeOK, historyVars, serverVars, workflowVars, openshiftVars
<1>1. UNCHANGED <<build, seen, fresh, queued, version, wanted, openshift, listed, ended, orphans,
                  overlooked, overtaken, events>>
  BY DEF Schedule
<1>2. request.pc = "schedule" /\ request' = [request EXCEPT !.pc = "scheduleStatus", !.build.phase = "Initialization"]
  BY DEF Schedule
<1>3. /\ request' \in BuildRequest /\ request'.build.inner = request.build.inner
      /\ request'.build.phase = "Initialization" /\ request'.build.restart = request.build.restart
      /\ request'.pc = "scheduleStatus" /\ request'.fresh = request.fresh
  BY <1>2 DEF BuildRequest, RequestSteps, Build, BuildPhases
<1>4. RequestInv'
  BY <1>1, <1>2, <1>3 DEF RequestInv
<1> QED BY <1>1, <1>3, <1>4, ServerKept

\* The build begins on the server: it follows nothing and counts nothing.
LEMMA ScheduleStatusStep ==
  ASSUME OpenShiftInv, ScheduleStatus
  PROVE  OpenShiftInv'
<1> USE DEF OpenShiftInv, OpenShiftTypeOK, workflowVars, openshiftVars
<1>1. /\ UNCHANGED <<seen, version, wanted, openshift, listed, orphans, overlooked, events>>
      /\ request.pc = "scheduleStatus" /\ request.fresh
      /\ ended' = {} /\ overtaken' = FALSE
  BY DEF ScheduleStatus, Put, CanUpdate
<1>2. /\ build' = [build EXCEPT !.phase = request.build.phase, !.inner = request.build.inner]
      /\ fresh' = (fresh /\ build' = build)
  BY DEF ScheduleStatus, Put
<1>3. /\ build' \in Build /\ build'.phase = "Initialization" /\ build'.inner = build.inner
      /\ build'.restart = build.restart /\ request.build = build'
  BY <1>1, <1>2 DEF RequestInv, Build, BuildRequest, BuildPhases
<1>4. /\ request' \in BuildRequest /\ request'.build \in {request.build, NewBuild} /\ queued' \in BOOLEAN
      /\ \/ request' = IdleRequest
         \/ request'.pc = "annotation" /\ request'.build = request.build
  BY <1>1, IdleOK DEF ScheduleStatus, Return, BuildRequest, RequestSteps
<1>5. RequestInv'
  BY <1>3, <1>4 DEF RequestInv, IdleRequest
<1>6. StatusHolds(build)' /\ StatusIsCurrent(build)'
  BY <1>3 DEF StatusHolds, StatusIsCurrent, Following
<1>7. /\ OneBuildFollowed' /\ CacheInv' /\ Started' = Started
      /\ {build'.inner, request'.build.inner} \subseteq Started \cup {0}
  BY <1>1, <1>3, <1>4 DEF OneBuildFollowed, CacheInv, Active, Started, NewBuild
<1>8. (fresh' => seen' = build') /\ fresh' \in BOOLEAN /\ overtaken' \in BOOLEAN
      /\ ended' \subseteq {"succeeded", "failed"} \X Versions
  BY <1>1, <1>2
<1> QED BY <1>1, <1>3, <1>4, <1>5, <1>6, <1>7, <1>8

\* Only the restart is taken back.
LEMMA AnnotationStep ==
  ASSUME OpenShiftInv, Annotation
  PROVE  OpenShiftInv'
<1> USE DEF OpenShiftInv, OpenShiftTypeOK, historyVars, workflowVars, openshiftVars
<1>1. /\ UNCHANGED <<seen, version, wanted, openshift, listed, ended, orphans, overlooked, overtaken,
                     events>>
      /\ request.pc = "annotation" /\ request.fresh
      /\ build' = [build EXCEPT !.restart = FALSE] /\ fresh' = (fresh /\ build' = build)
      /\ request' = IdleRequest /\ queued' \in BOOLEAN
  BY DEF Annotation, Put, CanUpdate, Return
<1>2. build' \in Build /\ build'.phase = "Initialization" /\ build'.inner = build.inner
  BY <1>1 DEF RequestInv, Build
<1>3. request' \in BuildRequest /\ request'.build.inner = 0 /\ ~request'.fresh
  BY <1>1, IdleOK DEF IdleRequest, NewBuild
<1>4. RequestInv'
  BY <1>3 DEF RequestInv
<1>5. StatusHolds(build)' /\ StatusIsCurrent(build)'
  BY <1>2 DEF StatusHolds, StatusIsCurrent, Following
<1>6. OneBuildFollowed' /\ CacheInv' /\ Started' = Started
  BY <1>1, <1>2 DEF OneBuildFollowed, CacheInv, Active, Started
<1> QED BY <1>1, <1>2, <1>3, <1>4, <1>5, <1>6

\* What a request that has seen the OpenShift build makes of it is written next.
LEMMA ReconciledStep ==
  ASSUME OpenShiftInv, NEW b \in Build, Reconciled(b)
  PROVE  /\ request' \in BuildRequest /\ queued' \in BOOLEAN
         /\ request'.pc = "reconcileStatus" /\ request'.build = b
         /\ request'.fresh = request.fresh
BY DEF OpenShiftInv, OpenShiftTypeOK, Reconciled, BuildRequest, RequestSteps

\* A build that begins follows the OpenShift build that is going on.
LEMMA FollowStep ==
  ASSUME OpenShiftInv, Follow
  PROVE  OpenShiftInv'
<1> USE DEF OpenShiftInv, OpenShiftTypeOK, workflowVars, openshiftVars
<1> DEFINE b == [request.build EXCEPT !.phase = "Running"]
<1>1. /\ UNCHANGED <<build, seen, fresh, version, wanted, openshift, listed, ended, orphans, overlooked,
                     events>>
      /\ overtaken' = TRUE /\ request.pc = "push" /\ request.found \in ActiveStates /\ Reconciled(b)
  BY DEF Follow, FollowsInner
<1>2. b \in Build /\ b.phase = "Running" /\ b.inner = request.build.inner /\ b.restart = request.build.restart
  BY DEF Build, BuildRequest, BuildPhases
<1> HIDE DEF b
<1>3. /\ request' \in BuildRequest /\ queued' \in BOOLEAN
      /\ request'.pc = "reconcileStatus" /\ request'.build = b /\ request'.fresh = request.fresh
  BY <1>1, <1>2, ReconciledStep
<1>4. Started' = Started /\ Active' = Active
  BY <1>1 DEF Started, Active
<1>5. RequestInv'
  <2> SUFFICES ASSUME request.fresh PROVE RequestInv'
    BY <1>3 DEF RequestInv
  <2>1. FoundHolds /\ request.build = build /\ build.phase = "Initialization" /\ ~build.restart
    BY <1>1 DEF RequestInv
  <2>2. build.inner \in Started /\ Counted(build.inner)
    BY <1>1, <2>1 DEF FoundHolds, ActiveStates
  <2>3. StatusHolds(request.build)' /\ StatusIsCurrent(request.build)'
    BY <1>1, <1>2, <1>3, <1>4, <2>1, <2>2 DEF StatusHolds, Counted, CountedAs, StatusIsCurrent
  <2> QED BY <1>1, <1>2, <1>3, <2>1, <2>3 DEF RequestInv, Terminal
<1>6. StatusHolds(build)' /\ StatusIsCurrent(build)'
  BY <1>1, StatusKept DEF StatusIsCurrent
<1>7. /\ OneBuildFollowed' /\ CacheInv'
      /\ {build'.inner, seen'.inner, request'.build.inner} \subseteq Started' \cup {0}
  BY <1>1, <1>2, <1>3, <1>4 DEF OneBuildFollowed, CacheInv
<1> QED BY <1>1, <1>3, <1>4, <1>5, <1>6, <1>7

\* Another OpenShift build is pushed; what was followed before is over, or
\* was overlooked.
LEMMA PushStep ==
  ASSUME OpenShiftInv, Push
  PROVE  OpenShiftInv'
<1> USE DEF OpenShiftInv, OpenShiftTypeOK, workflowVars
<1> DEFINE new == [state |-> "New", version |-> version]
           b == [request.build EXCEPT !.phase = "Scheduling", !.inner = Len(openshift')]
<1>1. /\ UNCHANGED <<build, seen, fresh, version, wanted, listed, ended, overlooked, overtaken>>
      /\ request.pc = "push" /\ request.found \notin ActiveStates
      /\ Len(openshift) < MaxBuilds
      /\ openshift' = Append(openshift, new) /\ orphans' = orphans \cup {Len(openshift')}
      /\ \/ Reconciled(b) /\ UNCHANGED events
         \/ Fault("answer") /\ Return(TRUE)
  BY DEF Push, FollowsInner
<1>2. new \in OpenShiftBuild /\ new.state = "New" /\ new.version = version
  BY DEF OpenShiftBuild, OpenShiftStates, ActiveStates
<1> HIDE DEF new
<1>3. /\ openshift' \in Seq(OpenShiftBuild) /\ Len(openshift') = Len(openshift) + 1
      /\ openshift'[Len(openshift')] = new
      /\ Started' = Started \cup {Len(openshift')} /\ Len(openshift') \notin Started
      /\ \A i \in Started : openshift'[i] = openshift[i]
  BY <1>1, <1>2, PushedBuilds
<1>4. Len(openshift') \in 1..MaxBuilds /\ Len(openshift') \in 0..MaxBuilds
  BY <1>1, <1>3, StartedIs, OpenShiftAssumption
<1>5. b \in Build /\ b.phase = "Scheduling" /\ b.inner = Len(openshift') /\ b.restart = request.build.restart
  BY <1>4 DEF Build, BuildRequest, BuildPhases
<1> HIDE DEF b
<1>6. /\ request' \in BuildRequest /\ queued' \in BOOLEAN
      /\ \/ request' = IdleRequest
         \/ request'.pc = "reconcileStatus" /\ request'.build = b /\ request'.fresh = request.fresh
  <2>1. CASE Reconciled(b)
    BY <1>5, <2>1, ReconciledStep
  <2>2. CASE Return(TRUE)
    BY <2>2, IdleOK DEF Return
  <2> QED BY <1>1, <2>1, <2>2
<1>7. events' \in 0..MaxEvents
  BY <1>1, EventCounted
<1>8. \A i \in Started : i \in Active' <=> i \in Active
  BY <1>3 DEF Active
<1>9. Active' \subseteq Active \cup {Len(openshift')}
  BY <1>3, <1>8 DEF Active
<1>10. listed[Len(openshift')] = "gone"
  BY <1>3, <1>4 DEF CacheInv
<1>11. RequestInv'
  <2>1. CASE request' = IdleRequest
    BY <2>1 DEF RequestInv, IdleRequest
  <2>2. CASE request'.pc = "reconcileStatus" /\ request'.build = b /\ request'.fresh = request.fresh
    <3> SUFFICES ASSUME request.fresh PROVE RequestInv'
      BY <2>2 DEF RequestInv
    <3>1. /\ request.build = build /\ MayLeave(build.inner)
          /\ build.phase = "Initialization" /\ ~build.restart
      BY <1>1 DEF RequestInv, FoundHolds
    <3>2. build.inner # Len(openshift')
      BY <1>3, StartedIs
    <3>3. MayLeave(build.inner)'
      BY <1>1, <1>9, <3>1, <3>2 DEF MayLeave
    <3>4. StatusHolds(request.build)'
      BY <1>1, <1>3, <1>5, <1>10, <2>2 DEF StatusHolds, Counted, CountedAs
    <3>5. StatusIsCurrent(request.build)'
      BY <1>1, <1>2, <1>3, <1>5, <2>2 DEF StatusIsCurrent, Versions
    <3> QED BY <1>1, <1>5, <2>2, <3>1, <3>3, <3>4, <3>5 DEF RequestInv, Terminal
  <2> QED BY <1>6, <2>1, <2>2
<1>12. StatusHolds(build)' /\ StatusIsCurrent(build)'
  BY <1>1, <1>3 DEF StatusHolds, Counted, CountedAs, StatusIsCurrent
<1>13. OneBuildFollowed'
  BY <1>1, <1>9 DEF OneBuildFollowed
<1>14. CacheInv'
  BY <1>1, <1>3, <1>9, <1>10 DEF CacheInv, EndedStates
<1>15. {build'.inner, seen'.inner, request'.build.inner} \subseteq Started' \cup {0}
  BY <1>1, <1>3, <1>5, <1>6, IdleOK DEF NewBuild
<1>16. /\ Len(openshift') <= MaxBuilds /\ (\A i \in Started' : openshift'[i] \in OpenShiftBuild)
       /\ orphans' \subseteq Started' /\ overlooked' \subseteq Started'
  <2>1. \A i \in Started' : openshift'[i] \in OpenShiftBuild
    BY <1>2, <1>3
  <2>2. Len(openshift') <= MaxBuilds
    BY <1>4, OpenShiftAssumption
  <2>3. orphans' \subseteq Started' /\ overlooked' \subseteq Started'
    BY <1>1, <1>3
  <2> QED BY <2>1, <2>2, <2>3
<1> QED BY <1>1, <1>3, <1>6, <1>7, <1>11, <1>12, <1>13, <1>14, <1>15, <1>16

\* The state that was found of the OpenShift build decides the phase.
LEMMA ReconcileStep ==
  ASSUME OpenShiftInv, Reconcile
  PROVE  OpenShiftInv'
<1> USE DEF OpenShiftInv, OpenShiftTypeOK, historyVars, workflowVars, openshiftVars
<1> DEFINE s == request.found
           b == [request.build EXCEPT !.phase = openshiftBuildPhaseMatrix[s],
                                      !.inner = IF s = "gone" THEN 0 ELSE @]
<1>1. /\ UNCHANGED <<build, seen, fresh, version, wanted, openshift, listed, ended, orphans, overlooked,
                     overtaken, events>>
      /\ request.pc = "reconcile" /\ Reconciled(b)
  BY DEF Reconcile
<1>2. s \in OpenShiftStates
  BY DEF BuildRequest
<1>3. /\ b \in Build /\ b.phase = openshiftBuildPhaseMatrix[s] /\ b.restart = request.build.restart
      /\ b.inner = IF s = "gone" THEN 0 ELSE request.build.inner
  <2>1. openshiftBuildPhaseMatrix[s] \in BuildPhases
    BY <1>2, MatrixPhases
  <2>2. 0 \in 0..MaxBuilds /\ request.build \in Build
    BY OpenShiftAssumption DEF BuildRequest
  <2> QED BY <2>1, <2>2 DEF Build
<1> HIDE DEF b
<1>4. /\ request' \in BuildRequest /\ queued' \in BOOLEAN
      /\ request'.pc = "reconcileStatus" /\ request'.build = b /\ request'.fresh = request.fresh
  BY <1>1, <1>3, ReconciledStep
<1>5. Started' = Started /\ Active' = Active
  BY <1>1 DEF Started, Active
<1>6. RequestInv'
  <2> SUFFICES ASSUME request.fresh PROVE RequestInv'
    BY <1>4 DEF RequestInv
  <2>1. request.build = build /\ build.phase \in Following /\ FoundHolds /\ ~build.restart /\ CountedAs(build.inner, request.found)
        /\ build.phase \notin Terminal \cup {"None"}
    BY <1>1 DEF RequestInv
  <2>2. b.phase # "Initialization" /\ (b.phase = "None" <=> s = "gone")
        /\ (b.phase = "Succeeded" => s = "Complete") /\ (b.phase \in {"Failed", "Error"} => s \in {"Failed", "Error"})
    BY <1>2, <1>3, MatrixPhases
  <2>3. StatusHolds(b)
    BY <1>3, <2>1, <2>2 DEF StatusHolds, CountedAs, Following
  <2>4. StatusIsCurrent(b)
    BY <1>3, <2>1, <2>2 DEF StatusIsCurrent, Following
  <2>5. b.inner = build.inner \/ MayLeave(build.inner)
    BY <1>3, <2>1 DEF FoundHolds, ActiveStates
  <2>6. StatusHolds(request.build)' /\ StatusIsCurrent(request.build)'
    BY <1>1, <1>4, <1>5, <2>3, <2>4 DEF StatusHolds, Counted, CountedAs, StatusIsCurrent
  <2>7. request'.build.inner = build'.inner \/ MayLeave(build.inner)'
    BY <1>1, <1>4, <1>5, <2>5 DEF MayLeave
  <2> QED BY <1>1, <1>3, <1>4, <2>1, <2>2, <2>6, <2>7 DEF RequestInv
<1>7. request'.build.inner \in Started \cup {0}
  BY <1>3, <1>4
<1> QED BY <1>1, <1>4, <1>5, <1>6, <1>7, ServerKept

\* The status is written: from here on the OpenShift build is on record.
LEMMA ReconcileStatusStep ==
  ASSUME OpenShiftInv, ReconcileStatus
  PROVE  OpenShiftInv'
<1> USE DEF OpenShiftInv, OpenShiftTypeOK, workflowVars, openshiftVars
<1>1. /\ UNCHANGED <<seen, version, wanted, openshift, listed, ended, overlooked, overtaken, events>>
      /\ request.pc = "reconcileStatus" /\ request.fresh
      /\ build' = [build EXCEPT !.phase = request.build.phase, !.inner = request.build.inner]
      /\ fresh' = (fresh /\ build' = build)
      /\ request' = IdleRequest /\ queued' \in BOOLEAN
      /\ orphans' = orphans \ {request.build.inner}
  BY DEF ReconcileStatus, Put, CanUpdate, Return
<1>2. build' = request.build
  BY <1>1 DEF RequestInv, Build, BuildRequest
<1>3. build' \in Build /\ request' \in BuildRequest /\ request'.build.inner = 0 /\ ~request'.fresh
  BY <1>1, <1>2, IdleOK DEF BuildRequest, IdleRequest, NewBuild
<1>4. RequestInv'
  BY <1>3 DEF RequestInv
<1>5. StatusHolds(build)' /\ StatusIsCurrent(build)'
  BY <1>1, <1>2 DEF RequestInv, StatusHolds, Counted, CountedAs, Started, StatusIsCurrent
<1>6. OneBuildFollowed' /\ CacheInv' /\ Started' = Started
  BY <1>1, <1>2 DEF RequestInv, MayLeave, OneBuildFollowed, CacheInv, Active, Started
<1> QED BY <1>1, <1>2, <1>3, <1>4, <1>5, <1>6

\* A request that ends without writing leaves everything as it is.
LEMMA RequestErrorStep ==
  ASSUME OpenShiftInv, RequestError
  PROVE  OpenShiftInv'
<1> USE DEF OpenShiftInv, OpenShiftTypeOK, historyVars, workflowVars, openshiftVars
<1>1. /\ UNCHANGED <<build, seen, fresh, version, wanted, openshift, listed, ended, orphans, overlooked,
                     overtaken>>
      /\ request' = IdleRequest /\ queued' \in BOOLEAN
  BY DEF RequestError, Return
<1>2. events' \in 0..MaxEvents
  BY EventCounted DEF RequestError
<1>3. request' \in BuildRequest /\ request'.build.inner = 0 /\ ~request'.fresh
  BY <1>1, IdleOK DEF IdleRequest, NewBuild
<1>4. RequestInv'
  BY <1>3 DEF RequestInv
<1> QED BY <1>1, <1>2, <1>3, <1>4, ServerKept

\* OpenShift builds move on, or the cache learns of it: versions and results
\* stay, and none becomes active again.
LEMMA OpenShiftMoves ==
  ASSUME OpenShiftInv, openshift' \in Seq(OpenShiftBuild), Len(openshift') = Len(openshift),
         \A j \in Started : openshift'[j].version = openshift[j].version,
         \A j \in Started : Counted(j) => Counted(j)',
         listed' \in [1..MaxBuilds -> OpenShiftStates], CacheInv', Active' \subseteq Active,
         ended \subseteq ended', ended' \subseteq {"succeeded", "failed"} \X Versions,
         UNCHANGED <<serverVars, request, workflowVars, orphans, overlooked, overtaken>>,
         events' \in 0..MaxEvents
  PROVE  OpenShiftInv'
<1> USE DEF OpenShiftInv, OpenShiftTypeOK, serverVars, workflowVars
<1>1. Started' = Started /\ \A j \in Started' : openshift'[j] \in OpenShiftBuild
  BY StartedIs DEF Started
<1>2. ASSUME NEW b, StatusHolds(b) PROVE StatusHolds(b)'
  <2> SUFFICES ASSUME b.phase \in Following PROVE StatusHolds(b)'
    BY DEF StatusHolds
  <2>1. b.inner \in Started /\ Counted(b.inner)
    BY <1>2 DEF StatusHolds
  <2>2. Counted(b.inner)'
    BY <2>1
  <2> QED BY <1>1, <1>2, <2>1, <2>2 DEF StatusHolds
<1>3. ASSUME NEW b, StatusHolds(b), StatusIsCurrent(b) PROVE StatusIsCurrent(b)'
  BY <1>3 DEF StatusHolds, StatusIsCurrent
<1>4. FoundHolds => FoundHolds'
  BY <1>1 DEF FoundHolds, MayLeave
<1>5. StatusHolds(build)' /\ StatusIsCurrent(build)'
  BY <1>2, <1>3
<1>6. RequestInv'
  <2>1. CASE request.fresh /\ request.pc = "reconcileStatus"
    <3>1. StatusHolds(request.build)' /\ StatusIsCurrent(request.build)'
      BY <1>2, <1>3, <2>1 DEF RequestInv
    <3>2. request'.build.inner = build'.inner \/ MayLeave(build.inner)'
      BY <2>1 DEF RequestInv, MayLeave
    <3> QED BY <2>1, <3>1, <3>2 DEF RequestInv
  <2>2. CASE ~(request.fresh /\ request.pc = "reconcileStatus")
    <3>1. StatusHolds(build) /\ build.phase \in Following /\ CountedAs(build.inner, request.found)
          => CountedAs(build.inner, request.found)'
      BY DEF StatusHolds, CountedAs
    <3> QED BY <1>4, <2>2, <3>1 DEF RequestInv
  <2> QED BY <2>1, <2>2
<1>7. OneBuildFollowed'
  BY DEF OneBuildFollowed
<1> QED BY <1>1, <1>5, <1>6, <1>7

\* What the cache lists is there, and the ends it had missed are counted.
LEMMA ListedBuilds ==
  ASSUME OpenShiftInv, ListBuilds, UNCHANGED openshift
  PROVE  /\ listed' \in [1..MaxBuilds -> OpenShiftStates] /\ CacheInv'
         /\ ended \subseteq ended' /\ ended' \subseteq {"succeeded", "failed"} \X Versions
         /\ \A j \in Started : Counted(j) => Counted(j)'
         /\ Started' = Started /\ Active' = Active
<1> USE DEF OpenShiftInv, OpenShiftTypeOK
<1>1. Started \subseteq 1..MaxBuilds
  BY StartedIs, OpenShiftAssumption
<1>2. Started' = Started /\ Active' = Active
  BY DEF Started, Active
<1>3. /\ listed' = [i \in 1..MaxBuilds |-> IF i \in Started THEN openshift[i].state ELSE "gone"]
      /\ ended' = ended \cup
           {ResultOf(i) : i \in {j \in Started : openshift[j].state \in EndedStates
                                               /\ listed[j] # openshift[j].state}}
  BY DEF ListBuilds
<1>4. \A i \in Started : ResultOf(i) \in {"succeeded", "failed"} \X Versions
  BY DEF ResultOf, OpenShiftBuild
<1>5. listed' \in [1..MaxBuilds -> OpenShiftStates]
  BY <1>3 DEF OpenShiftBuild, OpenShiftStates
<1>6. CacheInv'
  BY <1>2, <1>3 DEF CacheInv, Active, ActiveStates, EndedStates
<1>7. ASSUME NEW j \in Started, Counted(j) PROVE Counted(j)'
  <2>1. listed'[j] = openshift[j].state
    BY <1>1, <1>3
  <2>2. CASE openshift[j].state \in EndedStates /\ listed[j] # openshift[j].state
    BY <1>3, <2>1, <2>2 DEF Counted, CountedAs, ResultOf, EndedStates
  <2>3. CASE openshift[j].state \notin EndedStates
    BY <2>1, <2>3 DEF Counted, CountedAs, EndedStates
  <2>4. CASE listed[j] = openshift[j].state
    BY <1>3, <1>7, <2>1, <2>4 DEF Counted, CountedAs
  <2> QED BY <2>2, <2>3, <2>4
<1> QED BY <1>2, <1>3, <1>4, <1>5, <1>6, <1>7

\* The cache learns of the OpenShift builds.
LEMMA DeliverBuildsStep ==
  ASSUME OpenShiftInv, DeliverBuilds
  PROVE  OpenShiftInv'
BY ListedBuilds, OpenShiftMoves DEF DeliverBuilds, OpenShiftInv, OpenShiftTypeOK

\* A build changes its state and does not become active again.
LEMMA StateChanges ==
  ASSUME OpenShiftInv, NEW i \in Started, NEW s \in OpenShiftStates,
         openshift' = [openshift EXCEPT ![i].state = s], s \in ActiveStates => i \in Active,
         UNCHANGED <<serverVars, request, workflowVars, listed, historyVars>>, events' \in 0..MaxEvents
  PROVE  OpenShiftInv'
<1> USE DEF OpenShiftInv, OpenShiftTypeOK, historyVars
<1>1. /\ openshift' \in Seq(OpenShiftBuild) /\ Len(openshift') = Len(openshift)
      /\ Started' = Started /\ openshift'[i].state = s
      /\ \A j \in Started : openshift'[j].version = openshift[j].version
      /\ \A j \in Started \ {i} : openshift'[j] = openshift[j]
  BY ChangedBuild
<1>2. Active' \subseteq Active
  BY <1>1 DEF Active
<1>3. CacheInv'
  BY <1>1, <1>2 DEF CacheInv
<1>4. UNCHANGED <<listed, ended>>
  OBVIOUS
<1>5. \A j \in Started : Counted(j) => Counted(j)'
  BY ONLY <1>1, <1>4 DEF Counted, CountedAs
<1> QED BY <1>1, <1>2, <1>3, <1>5, OpenShiftMoves

\* A build that OpenShift runs has not ended, so that nothing rests on it yet.
LEMMA BuildRunsStep ==
  ASSUME OpenShiftInv, BuildRuns
  PROVE  OpenShiftInv'
<1>1. PICK i \in Active : \E next \in {"Pending", "Running"} : openshift' = [openshift EXCEPT ![i].state = next]
  BY DEF BuildRuns
<1>2. PICK next \in {"Pending", "Running"} : openshift' = [openshift EXCEPT ![i].state = next]
  BY <1>1
<1>3. i \in Started /\ next \in OpenShiftStates
  BY DEF Active, OpenShiftStates, ActiveStates
<1>4. UNCHANGED <<serverVars, request, workflowVars, listed, historyVars>> /\ events' \in 0..MaxEvents
  BY DEF BuildRuns, OpenShiftInv, OpenShiftTypeOK
<1> QED BY <1>2, <1>3, <1>4, StateChanges

\* A build that ends, or is gone, is not active any more.
LEMMA BuildEndsStep ==
  ASSUME OpenShiftInv, NEW i \in Started, NEW s \in EndedStates \cup {"gone"},
         BuildEnds(i, s), events' \in 0..MaxEvents
  PROVE  OpenShiftInv'
<1>1. s \in OpenShiftStates /\ s \notin ActiveStates
  BY DEF OpenShiftStates, EndedStates, ActiveStates
<1> QED BY <1>1, StateChanges DEF BuildEnds

\* Only a later version is known.
LEMMA WorkflowChangesStep ==
  ASSUME OpenShiftInv, WorkflowChanges
  PROVE  OpenShiftInv'
<1> USE DEF OpenShiftInv, OpenShiftTypeOK, serverVars, openshiftVars, historyVars
<1>1. /\ UNCHANGED <<build, seen, fresh, queued, request, wanted, openshift, listed, ended, orphans,
                     overlooked, overtaken>>
      /\ version < MaxVersion /\ version' = version + 1 /\ events' \in 0..MaxEvents
  BY EventCounted DEF WorkflowChanges
<1>2. version' \in Versions /\ wanted' <= version'
  BY <1>1, OpenShiftAssumption DEF Versions
<1>3. RequestInv'
  BY <1>1 DEF RequestInv, FoundHolds, MayLeave, StatusHolds, Counted, CountedAs, StatusIsCurrent,
              Started, Active
<1> QED BY <1>1, <1>2, <1>3, ServerKept

\* Asking for another version makes every copy in hand old that does not ask
\* for one already, and says so in the build.
LEMMA AskedStep ==
  ASSUME OpenShiftInv, NEW new \in Build, AskedWith(new), new.inner = build.inner,
         \/ new.phase = "None" /\ new.restart = build.restart
         \/ new.phase = build.phase /\ new.restart,
         events' \in 0..MaxEvents
  PROVE  OpenShiftInv'
<1> USE DEF OpenShiftInv, OpenShiftTypeOK, historyVars, openshiftVars
<1>1. /\ UNCHANGED <<seen, queued, version, openshift, listed, ended, orphans, overlooked, overtaken>>
      /\ wanted' = version
      /\ build' = new /\ fresh' = (fresh /\ build' = build)
      /\ request' = [request EXCEPT !.fresh = request.fresh /\ new = build]
  BY DEF AskedWith, Put
<1>2. wanted' \in Versions /\ wanted' <= version'
  BY <1>1 DEF Versions
<1>3. build' \in Build /\ build'.inner = build.inner
  BY <1>1
<1>4. /\ request' \in BuildRequest /\ request'.build = request.build /\ request'.pc = request.pc
      /\ request'.fresh => request.fresh /\ build' = build
  BY <1>1 DEF BuildRequest
<1>5. RequestInv'
  <2>1. CASE request'.fresh
    <3>1. request.pc \notin {"push", "reconcile", "reconcileStatus"}
      BY <1>1, <1>4, <2>1 DEF RequestInv
    <3> QED BY <1>1, <1>4, <2>1, <3>1 DEF RequestInv
  <2>2. CASE ~request'.fresh
    BY <2>2 DEF RequestInv
  <2> QED BY <2>1, <2>2
<1>6. StatusHolds(build)' /\ StatusIsCurrent(build)'
  BY <1>1, <1>3 DEF StatusHolds, Counted, CountedAs, Started, StatusIsCurrent, Following
<1>7. OneBuildFollowed' /\ CacheInv' /\ Started' = Started
  BY <1>1, <1>3 DEF OneBuildFollowed, CacheInv, Active, Started
<1>8. fresh' \in BOOLEAN /\ (fresh' => seen' = build')
  BY <1>1
<1> QED BY <1>1, <1>2, <1>3, <1>4, <1>5, <1>6, <1>7, <1>8

\* The workflow controller and the user both ask.
LEMMA AskingStep ==
  ASSUME OpenShiftInv, MarkToRestart \/ UserRestarts
  PROVE  OpenShiftInv'
<1>1. /\ [build EXCEPT !.phase = "None"] \in Build /\ [build EXCEPT !.restart = TRUE] \in Build
      /\ [build EXCEPT !.phase = "None"].phase = "None"
      /\ [build EXCEPT !.phase = "None"].restart = build.restart
      /\ [build EXCEPT !.phase = "None"].inner = build.inner
      /\ [build EXCEPT !.restart = TRUE].restart
      /\ [build EXCEPT !.restart = TRUE].phase = build.phase
      /\ [build EXCEPT !.restart = TRUE].inner = build.inner
  BY DEF OpenShiftInv, OpenShiftTypeOK, Build, BuildPhases
<1>2. events' \in 0..MaxEvents
  BY EventCounted DEF MarkToRestart, UserRestarts, OpenShiftInv, OpenShiftTypeOK
<1> QED BY <1>1, <1>2, AskedStep DEF MarkToRestart, UserRestarts

\* The operator forgets its request and lists everything anew.
LEMMA CrashStep ==
  ASSUME OpenShiftInv, Crash
  PROVE  OpenShiftInv'
<1> USE DEF OpenShiftInv, OpenShiftTypeOK, workflowVars
<1>1. /\ UNCHANGED <<build, version, wanted, openshift, orphans, overlooked, overtaken>>
      /\ request' = IdleRequest /\ seen' = build /\ fresh' = TRUE /\ queued' = TRUE
      /\ ListBuilds
  BY DEF Crash
<1>2. events' \in 0..MaxEvents
  BY EventCounted DEF Crash
<1>3. request' \in BuildRequest /\ request'.build.inner = 0 /\ ~request'.fresh
  BY <1>1, IdleOK DEF IdleRequest, NewBuild
<1>4. RequestInv'
  BY <1>3 DEF RequestInv
<1>5. /\ listed' \in [1..MaxBuilds -> OpenShiftStates] /\ CacheInv'
      /\ ended \subseteq ended' /\ ended' \subseteq {"succeeded", "failed"} \X Versions
      /\ \A j \in Started : Counted(j) => Counted(j)'
      /\ Started' = Started /\ Active' = Active
  BY <1>1, ListedBuilds
<1>6. StatusHolds(build)' /\ StatusIsCurrent(build)'
  BY <1>1, <1>5 DEF StatusHolds, StatusIsCurrent
<1>7. OneBuildFollowed'
  BY <1>1, <1>5 DEF OneBuildFollowed
<1> QED BY <1>1, <1>2, <1>3, <1>4, <1>5, <1>6, <1>7

\* Before the first request nothing has been started.
LEMMA InitHolds == Init => OpenShiftInv
<1> SUFFICES ASSUME Init PROVE OpenShiftInv
  OBVIOUS
<1>1. openshift = <<>> /\ openshift \in Seq(OpenShiftBuild) /\ Len(openshift) = 0 /\ Started = {}
  BY DEF Init, Started
<1>2. OpenShiftTypeOK
  <2>1. NewBuild \in Build /\ request \in BuildRequest
    BY IdleOK DEF Init, BuildRequest
  <2>2. version \in Versions /\ wanted \in Versions /\ wanted <= version /\ events \in 0..MaxEvents /\ 0 <= MaxBuilds
    BY OpenShiftAssumption DEF Init, Versions
  <2>3. listed \in [1..MaxBuilds -> OpenShiftStates]
    BY DEF Init, OpenShiftStates
  <2> QED BY <1>1, <2>1, <2>2, <2>3 DEF Init, OpenShiftTypeOK
<1> QED BY <1>1, <1>2
  DEF Init, OpenShiftInv, IdleRequest, NewBuild, StatusHolds, StatusIsCurrent, Following, RequestInv,
      OneBuildFollowed, Active, CacheInv, EndedStates

\* Nothing happens.
LEMMA StutterHolds ==
  ASSUME OpenShiftInv, UNCHANGED buildVars
  PROVE  OpenShiftInv'
<1> USE DEF OpenShiftInv, OpenShiftTypeOK, buildVars, serverVars, workflowVars, openshiftVars, historyVars
<1>1. RequestInv'
  BY DEF RequestInv, FoundHolds, MayLeave, StatusHolds, Counted, CountedAs, StatusIsCurrent, Started, Active
<1> QED BY <1>1, ServerKept

\* Every step keeps the invariant.
LEMMA NextHolds ==
  ASSUME OpenShiftInv, [Next]_buildVars
  PROVE  OpenShiftInv'
<1>1. CASE Controller
  BY <1>1, ScheduleStep, ScheduleStatusStep, AnnotationStep, FollowStep, PushStep, ReconcileStep,
     ReconcileStatusStep, RequestErrorStep DEF Controller
<1>2. CASE BuildFinishes
  BY <1>2, BuildEndsStep DEF BuildFinishes, Active, EndedStates, OpenShiftInv, OpenShiftTypeOK
<1>3. CASE BuildCancelled
  BY <1>3, EventCounted, BuildEndsStep DEF BuildCancelled, Active, EndedStates, OpenShiftInv, OpenShiftTypeOK
<1>4. CASE BuildGone
  BY <1>4, EventCounted, BuildEndsStep DEF BuildGone, OpenShiftInv, OpenShiftTypeOK
<1> QED BY <1>1, <1>2, <1>3, <1>4, StartStep, DeliverStep, DeliverBuildsStep, BuildRunsStep,
     WorkflowChangesStep, AskingStep, CrashStep, StutterHolds DEF Next

\* The invariant of the OpenShift builder.
LEMMA OpenShiftInvariance == Spec => []OpenShiftInv
BY InitHolds, NextHolds, PTL DEF Spec

-----------------------------------------------------------------------------
(* The theorems.                                                           *)

\* The build, its copies, the OpenShift builds and the history keep their
\* types (Reconcile of the build controller, openshiftBuilderManager).
THEOREM OpenShiftTypeCorrect == Spec => []OpenShiftTypeOK
BY OpenShiftInvariance, PTL DEF OpenShiftInv

\* No OpenShift build goes on beside the one the status refers to, except
\* one whose start no status write recorded, and one that the cache did not
\* list when the controller looked for it (openshiftbuilder.go, the guard
\* in Reconcile against spamming builds and fetchOpenShiftBuildRef).
THEOREM OneBuildFollowedTheorem == Spec => []OneBuildFollowed
BY OpenShiftInvariance, PTL DEF OpenShiftInv

\* Where no request reads an old copy nothing is overlooked, and only the lost
\* starts are left (fetchOpenShiftBuildRef).
THEOREM NothingOverlookedTheorem ==
  ASSUME "stale" \notin FaultKinds
  PROVE  Spec => [](Active \subseteq orphans \cup {build.inner})
<1> DEFINE Inv == overlooked = {}
<1>1. Init => Inv
  BY DEF Init
<1>2. Inv /\ [Next]_buildVars => Inv'
  <2> SUFFICES ASSUME Inv, [Next]_buildVars PROVE Inv'
    OBVIOUS
  <2>1. CASE Start
    <3>1. Current
      BY <2>1 DEF Start, Fault
    <3>2. StateOf(seen.inner) = "gone" => seen.inner \notin Active
      BY <3>1 DEF Current, Active, ActiveStates
    <3> QED BY <2>1, <3>2 DEF Start
  <2>2. CASE ~Start
    BY <2>2
    DEF Next, Controller, Schedule, ScheduleStatus, Annotation, Follow, Push, Reconcile,
        ReconcileStatus, RequestError, Deliver, DeliverBuilds, BuildRuns, BuildFinishes,
        BuildCancelled, BuildGone, BuildEnds, WorkflowChanges, MarkToRestart, UserRestarts,
        AskedWith, Crash, buildVars, historyVars
  <2> QED BY <2>1, <2>2
<1>3. Inv /\ OneBuildFollowed => Active \subseteq orphans \cup {build.inner}
  BY DEF OneBuildFollowed
<1> QED BY <1>1, <1>2, <1>3, OneBuildFollowedTheorem, PTL DEF Spec

\* What has succeeded is the version last asked for or a later one, unless
\* the build followed an OpenShift build that was started before (Reconcile).
THEOREM ImageIsCurrentTheorem == Spec => []ImageIsCurrent
<1>1. OpenShiftInv => ImageIsCurrent
  BY DEF OpenShiftInv, ImageIsCurrent, StatusIsCurrent, Following, BuildPhases
<1> QED BY <1>1, OpenShiftInvariance, PTL

-----------------------------------------------------------------------------
(* The refinement: every step is one of BuildLifecycle or changes nothing  *)
(* that it speaks of.                                                      *)

\* What the refinement mapping takes for a build that is asked for.
Asked == build.restart \/ build.phase = "None"

\* A build that reports a result follows an OpenShift build.
LEMMA ReportedIs ==
  ASSUME OpenShiftInv
  PROVE  /\ Reported = Lifecycle!None <=> build.phase = "None"
         /\ Reported = Lifecycle!Running <=> build.phase \notin {"None", "Succeeded", "Failed", "Error"}
         /\ build.phase \in {"Succeeded", "Failed", "Error"} => build.inner \in Started /\ Reported \in ended
BY DEF OpenShiftInv, OpenShiftTypeOK, Reported, Lifecycle!None, Lifecycle!Running, StatusHolds, Following,
       Build, BuildPhases

\* What is reported depends on the status and on the version of what it
\* follows, which stays.
LEMMA ReportedKept ==
  ASSUME OpenShiftInv, build'.phase = build.phase, build'.inner = build.inner,
         \A i \in Started : openshift'[i].version = openshift[i].version
  PROVE  Reported' = Reported
BY ReportedIs DEF Reported

\* The requests of the controller.
LEMMA ControllerRefines ==
  ASSUME OpenShiftInv, OpenShiftInv', Controller
  PROVE  [Lifecycle!Next]_(Lifecycle!lifecycleVars)
<1> USE DEF OpenShiftInv, OpenShiftTypeOK, serverVars, openshiftVars, historyVars, Lifecycle!lifecycleVars
<1>1. CASE UNCHANGED <<build, openshift, ended>>
  BY <1>1, ReportedKept
<1>2. CASE Push
  <2>1. \A i \in Started : openshift'[i] = openshift[i]
    BY <1>2, StartedIs, AppendProperties DEF Push
  <2> QED BY <1>2, <2>1, ReportedKept DEF Push
<1>3. CASE ScheduleStatus
  <2>1. request.pc = "scheduleStatus" /\ request.fresh /\ ended' = {}
        /\ build' = [build EXCEPT !.phase = request.build.phase, !.inner = request.build.inner]
    BY <1>3 DEF ScheduleStatus, Put, CanUpdate
  <2>2. Asked /\ build'.phase = "Initialization" /\ build'.restart = build.restart
    BY <2>1 DEF RequestInv, Asked, Build
  <2>3. Reported' = Lifecycle!Running
    BY <2>2 DEF Reported, Lifecycle!Running
  <2>4. Lifecycle!Begin
    BY <2>1, <2>2, <2>3 DEF Lifecycle!Begin, Asked, Lifecycle!Running
  <2> QED BY <2>4 DEF Lifecycle!Next
<1>4. CASE Annotation
  <2>1. request.pc = "annotation" /\ request.fresh /\ build' = [build EXCEPT !.restart = FALSE]
        /\ UNCHANGED <<openshift, ended>>
    BY <1>4 DEF Annotation, Put, CanUpdate
  <2>2. build.phase = "Initialization" /\ build'.phase = build.phase /\ build'.inner = build.inner /\ ~build'.restart
    BY <2>1 DEF RequestInv, Build
  <2>3. Reported = Lifecycle!Running /\ Reported' = Reported
    BY <2>2 DEF Reported, Lifecycle!Running
  <2>4. Lifecycle!Acknowledge
    BY <2>1, <2>2, <2>3 DEF Lifecycle!Acknowledge, Lifecycle!Running
  <2> QED BY <2>4 DEF Lifecycle!Next
<1>5. CASE ReconcileStatus
  <2>1. request.pc = "reconcileStatus" /\ request.fresh /\ UNCHANGED <<openshift, ended>>
        /\ build' = [build EXCEPT !.phase = request.build.phase, !.inner = request.build.inner]
    BY <1>5 DEF ReconcileStatus, Put, CanUpdate
  <2>2. /\ build.phase \notin Terminal \cup {"None"} /\ ~build.restart /\ ~build'.restart
        /\ build'.phase = request.build.phase
    BY <2>1 DEF RequestInv, Build
  <2>3. Reported = Lifecycle!Running
    BY <2>2, ReportedIs DEF Terminal
  <2>4. CASE build'.phase = "None"
    <3>1. Lifecycle!Withdraw
      BY <2>1, <2>2, <2>3, <2>4 DEF Lifecycle!Withdraw, Lifecycle!None, Lifecycle!Running, Reported
    <3> QED BY <3>1 DEF Lifecycle!Next
  <2>5. CASE build'.phase \in {"Succeeded", "Failed", "Error"}
    <3>1. Reported' \in ended
      BY <2>1, <2>5 DEF Reported, StatusHolds, Following, Build, BuildPhases
    <3>2. Lifecycle!Report
      BY <2>1, <2>2, <2>3, <2>5, <3>1 DEF Lifecycle!Report, Lifecycle!Running, Terminal
    <3> QED BY <3>2 DEF Lifecycle!Next
  <2>6. CASE build'.phase \notin {"None", "Succeeded", "Failed", "Error"}
    <3>1. Reported' = Reported
      BY <2>3, <2>6 DEF Reported, Lifecycle!Running
    <3> QED BY <2>1, <2>2, <2>6, <3>1 DEF Terminal
  <2> QED BY <2>4, <2>5, <2>6
<1> QED BY <1>1, <1>2, <1>3, <1>4, <1>5 DEF Controller, Schedule, Follow, Reconcile, RequestError

\* The cache learns of OpenShift builds, and may see some of them to have ended.
LEMMA ListingRefines ==
  ASSUME OpenShiftInv, OpenShiftInv', ListBuilds, UNCHANGED <<build, openshift>>
  PROVE  Lifecycle!JobsEnd
<1> USE DEF OpenShiftInv, OpenShiftTypeOK
<1> DEFINE new == {ResultOf(i) : i \in {j \in Started : openshift[j].state \in EndedStates
                                                      /\ listed[j] # openshift[j].state}}
<1>1. ended' = ended \cup new
  BY DEF ListBuilds
<1>2. new \in SUBSET Lifecycle!Results
  BY DEF ResultOf, OpenShiftBuild, Lifecycle!Results
<1>3. Reported' = Reported
  BY ReportedKept
<1> HIDE DEF new
<1> QED BY <1>1, <1>2, <1>3 DEF Lifecycle!JobsEnd

\* OpenShift builds that move on or end, and restarts.
LEMMA EnvironmentRefines ==
  ASSUME OpenShiftInv, OpenShiftInv', DeliverBuilds \/ BuildRuns \/ BuildFinishes \/ BuildCancelled
         \/ BuildGone \/ WorkflowChanges \/ MarkToRestart \/ UserRestarts \/ Crash
  PROVE  [Lifecycle!Next]_(Lifecycle!lifecycleVars)
<1> USE DEF OpenShiftInv, OpenShiftTypeOK, serverVars, openshiftVars, historyVars, Lifecycle!lifecycleVars
<1>1. ASSUME NEW i \in Started, NEW s \in OpenShiftStates, openshift' = [openshift EXCEPT ![i].state = s],
             UNCHANGED <<build, ended>>
      PROVE  UNCHANGED Lifecycle!lifecycleVars
  BY <1>1, ChangedBuild, ReportedKept
<1>2. CASE DeliverBuilds \/ Crash
  BY <1>2, ListingRefines DEF DeliverBuilds, Crash, Lifecycle!Next
<1>3. CASE BuildRuns
  <2>1. PICK i \in Started, s \in OpenShiftStates : openshift' = [openshift EXCEPT ![i].state = s]
    BY <1>3 DEF BuildRuns, Active, OpenShiftStates, ActiveStates
  <2> QED BY <1>1, <1>3, <2>1 DEF BuildRuns
<1>4. CASE BuildFinishes \/ BuildCancelled \/ BuildGone
  <2>1. PICK i \in Started, s \in OpenShiftStates : BuildEnds(i, s)
    BY <1>4 DEF BuildFinishes, BuildCancelled, BuildGone, Active, OpenShiftStates, EndedStates
  <2> QED BY <1>1, <2>1 DEF BuildEnds
<1>5. CASE UserRestarts
  <2>1. build' = [build EXCEPT !.restart = TRUE] /\ UNCHANGED <<openshift, ended>>
    BY <1>5 DEF UserRestarts, AskedWith, Put
  <2>2. build'.restart /\ build'.phase = build.phase /\ build'.inner = build.inner
    BY <2>1 DEF Build
  <2>3. Reported' = Reported
    BY <2>1, <2>2, ReportedKept
  <2>4. Lifecycle!Ask
    BY <2>1, <2>2, <2>3 DEF Lifecycle!Ask
  <2> QED BY <2>4 DEF Lifecycle!Next
<1>6. CASE MarkToRestart
  <2>1. build' = [build EXCEPT !.phase = "None"] /\ UNCHANGED <<openshift, ended>>
    BY <1>6 DEF MarkToRestart, AskedWith, Put
  <2>2. build'.phase = "None"
    BY <2>1 DEF Build
  <2>3. Lifecycle!Withdraw
    BY <2>1, <2>2 DEF Lifecycle!Withdraw, Lifecycle!None, Reported
  <2> QED BY <2>3 DEF Lifecycle!Next
<1>7. CASE WorkflowChanges
  BY <1>7, ReportedKept DEF WorkflowChanges
<1> QED BY <1>2, <1>3, <1>4, <1>5, <1>6, <1>7

\* The OpenShift builder is a builder: what it reports ended since the build
\* began, and it begins anew only when asked to or when it lost what it was
\* following (BuildLifecycle; openshiftbuilder.go, Schedule and Reconcile).
THEOREM ImplementsLifecycleTheorem == Spec => ImplementsLifecycle
<1>1. Init => Lifecycle!Init
  BY DEF Init, NewBuild, Reported, Lifecycle!Init, Lifecycle!None
<1>2. OpenShiftInv /\ OpenShiftInv' /\ [Next]_buildVars => [Lifecycle!Next]_(Lifecycle!lifecycleVars)
  <2> SUFFICES ASSUME OpenShiftInv, OpenShiftInv', [Next]_buildVars
               PROVE  [Lifecycle!Next]_(Lifecycle!lifecycleVars)
    OBVIOUS
  <2>1. CASE UNCHANGED <<build, openshift, ended>>
    BY <2>1, ReportedKept DEF Lifecycle!lifecycleVars
  <2> QED BY <2>1, ControllerRefines, EnvironmentRefines
       DEF Next, Start, Deliver, buildVars, serverVars, openshiftVars, historyVars
<1> QED BY <1>1, <1>2, OpenShiftInvariance, PTL DEF Spec, ImplementsLifecycle, Lifecycle!Spec
=============================================================================
