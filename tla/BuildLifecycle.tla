--------------------------- MODULE BuildLifecycle ---------------------------
(***************************************************************************)
(* What a build promises to the workflow that waits for it, whichever      *)
(* builder runs it: it reports success or failure only of something that   *)
(* was built since the build last began, it begins only when it is asked   *)
(* to, and a report stays as it is until it is withdrawn to build anew.    *)
(***************************************************************************)
CONSTANT Versions   \* the versions of the workflow that may be built, from 1 on

VARIABLES
  asked,     \* a build has been asked for and not begun
  outcome,   \* what the build reports
  results    \* the results of everything that ended since it began

lifecycleVars == <<asked, outcome, results>>

Results == {"succeeded", "failed"} \X Versions

None == <<"none", 0>>

Running == <<"running", 0>>

Init == asked = TRUE /\ outcome = None /\ results = {}

\* A build is asked for beside the report there is.
Ask == asked' = TRUE /\ UNCHANGED <<outcome, results>>

\* The request may be taken back with the beginning or after it.
Begin ==
  /\ asked /\ asked' \in BOOLEAN
  /\ outcome' = Running /\ results' = {}

Acknowledge == outcome = Running /\ asked' = FALSE /\ UNCHANGED <<outcome, results>>

\* Jobs end, or are seen to have ended.
JobsEnd ==
  /\ \E new \in SUBSET Results : results' = results \cup new
  /\ UNCHANGED <<asked, outcome>>

Report ==
  /\ outcome = Running
  /\ outcome' \in results
  /\ UNCHANGED <<asked, results>>

\* A build is asked for by taking back what was reported: the workflow has
\* changed, or what was being built is gone.
Withdraw ==
  /\ outcome' = None /\ asked' = TRUE
  /\ UNCHANGED results

Next == Ask \/ Begin \/ Acknowledge \/ JobsEnd \/ Report \/ Withdraw

Spec == Init /\ [][Next]_lifecycleVars
=============================================================================
