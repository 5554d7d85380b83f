----------------------------- MODULE Conditions -----------------------------
(***************************************************************************)
(* The condition manager every custom resource of the operator keeps its   *)
(* status with (api/status_types.go).  A resource has one "ready"          *)
(* condition type and a set of dependent types; the manager's operations   *)
(* are operators from a map of conditions to the new map.  Messages and    *)
(* timestamps are left out; a condition type that is not set yet has the   *)
(* value NilCond.                                                          *)
(***************************************************************************)

\* A condition of the given status and reason.
Cond(status, reason) == [status |-> status, reason |-> reason]

\* The condition pointer of a type that the status does not list.
NilCond == Cond("nil", "")

IsTrue(c) == c.status = "True"

IsFalse(c) == c.status = "False"

\* IsUnknown: a nil condition is unknown too.
IsUnknown(c) == c.status \in {"nil", "Unknown"}

\* setCondition: the other types keep their condition.
SetCondition(conds, t, c) == [conds EXCEPT ![t] = c]

MarkTrue(conds, t) == SetCondition(conds, t, Cond("True", ""))

MarkFalse(conds, t, reason) == SetCondition(conds, t, Cond("False", reason))

\* MarkUnknown: t becomes Unknown; a False dependent trumps it, and then
\* the ready condition is made False unless it is already; otherwise a
\* dependent t takes the ready condition with it.
MarkUnknown(conds, ready, dependents, t, reason) ==
  LET marked == SetCondition(conds, t, Cond("Unknown", reason))
      failed == \E d \in dependents : IsFalse(marked[d])
  IN IF failed
     THEN IF IsFalse(marked[ready]) THEN marked
          ELSE MarkFalse(marked, ready, reason)
     ELSE IF t \in dependents
          THEN SetCondition(marked, ready, Cond("Unknown", reason))
          ELSE marked

\* InitializeConditions: unset dependents start True below a True ready
\* condition and Unknown otherwise.
InitializeConditions(conds, ready, dependents) ==
  LET start == IF IsTrue(conds[ready]) THEN "True" ELSE "Unknown"
  IN [t \in DOMAIN conds |->
        IF conds[t] # NilCond THEN conds[t]
        ELSE IF t = ready THEN Cond("Unknown", "")
        ELSE IF t \in dependents THEN Cond(start, "")
        ELSE NilCond]
=============================================================================
