--------------------------- MODULE ClusterPlatform ---------------------------
(***************************************************************************)
(* The SonataFlowClusterPlatform controller: one of the cluster platforms  *)
(* becomes active and follows the readiness of the platform it refers to;  *)
(* the others are marked duplicated.  Everything is read from the cache.   *)
(***************************************************************************)
EXTENDS PlatformObjects

VARIABLES
  ck    \* the request of the cluster platform controller

\* The cluster platform, its condition as read and the one to be written.
ClusterPlatformRequest ==
  [pc : {"idle", "patch"}, c : ClusterPlatforms \cup {"none"},
   read : SucceedCondition, cond : SucceedCondition, failed : BOOLEAN]

IdleClusterPlatform ==
  [pc |-> "idle", c |-> "none", read |-> NilCond, cond |-> NilCond, failed |-> FALSE]

\* A cluster platform marked duplicated is looked at again only when all are.
ClusterCanHandle(cond) ==
  \/ cond # Duplicated
  \/ \A c \in ClusterPlatforms : cseen[c].exists => IsDuplicated(cseen[c])

ClusterIsPrimaryDuplicate(c) ==
  /\ c \notin Secondary
  /\ \E d \in Primary(ClusterPlatforms) \ {c} : cseen[d].exists /\ ClusterPlatformIsActive(cseen[d])

\* Seeded fault: reason and message are swapped.
Followed_Message(o) ==
  CASE ~o.exists       -> Cond("False", "PlatformNotFound")
    [] IsTrue(o.cond)  -> Cond("True", "")
    [] IsFalse(o.cond) -> Cond("False", "Referenced platform is not ready")
    [] OTHER           -> Cond("Unknown", "Warming")

\* The condition that follows from the referenced platform.
Followed(o) ==
  CASE ~o.exists       -> Cond("False", "PlatformNotFound")
    [] IsTrue(o.cond)  -> Cond("True", "")
    [] IsFalse(o.cond) -> Cond("False", "Failure")
    [] OTHER           -> Cond("Unknown", "Warming")

\* Before the referenced platform is read configureDefaults updates the spec
\* of the cached object.
Configured(c) ==
  IF c \in behind \/ ClusterIsPrimaryDuplicate(c) THEN cplatform[c]
  ELSE [cplatform[c] EXCEPT !.capable = TRUE]

\* A conflict or a refusal of that update is logged and no more; an error of
\* one of the reads is what the status will say.
ClusterStart(c) ==
  LET read == InitializedCond(cseen[c].cond)
      cond == IF ClusterIsPrimaryDuplicate(c) THEN Duplicated ELSE Followed(seen[cseen[c].to])
      patch == [pc |-> "patch", c |-> c, read |-> read, cond |-> cond, failed |-> FALSE]
  IN /\ ck.pc = "idle" /\ c \in queued
     /\ IF cseen[c].exists /\ ClusterCanHandle(read)
        THEN \/ /\ ck' = patch /\ UNCHANGED faults
                /\ StoreClusterPlatform(c, Configured(c), queued \ {c})
             \/ /\ Fault("api")
                /\ ck' \in {patch, [patch EXCEPT !.cond = Cond("False", "Failure"), !.failed = TRUE]}
                /\ StoreClusterPlatform(c, cplatform[c], queued \ {c})
        ELSE UNCHANGED <<ck, faults>> /\ StoreClusterPlatform(c, cplatform[c], queued \ {c})
     /\ UNCHANGED userVars

\* The status is patched with what differs from the object as it was read:
\* no conflict is possible, and a condition that has not changed is left as
\* the server has it.
Patched(o) ==
  [o EXCEPT !.cond = IF ck.cond = ck.read THEN @ ELSE ck.cond]

\* With the patch the request ends; the delay or the error that has it
\* queued again when the target is not ready.
ClusterPatch ==
  /\ ck.pc = "patch"
  /\ cplatform[ck.c].exists
  /\ LET requeue == IF ck.failed \/ ~IsTrue(ck.cond) THEN {ck.c} ELSE {}
     IN StoreClusterPlatform(ck.c, Patched(cplatform[ck.c]), queued \cup requeue)
  /\ ck' = IdleClusterPlatform
  /\ UNCHANGED <<userVars, faults>>

\* The cluster platform is gone, or the server refuses the patch.
ClusterPatchError ==
  /\ ck.pc = "patch"
  /\ \/ ~cplatform[ck.c].exists /\ UNCHANGED faults
     \/ Fault("api")
  /\ queued' = queued \cup {ck.c}
  /\ ck' = IdleClusterPlatform
  /\ UNCHANGED <<platform, seen, cplatform, cseen, behind, userVars>>

ClusterPlatformController ==
  \/ \E c \in ClusterPlatforms : ClusterStart(c)
  \/ ClusterPatch \/ ClusterPatchError
=============================================================================
