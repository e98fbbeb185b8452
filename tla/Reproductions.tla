---------------------------- MODULE Reproductions ----------------------------
(***************************************************************************)
(* The life of a request (OutboxJobs) and what its handler computes        *)
(* (ReproductionPlan) together: what a reproduction that a user can open   *)
(* was made from.  OutboxJobs does not say whose session it was, so it may *)
(* have been any of Sessions, and any of its events the failure.           *)
(***************************************************************************)
EXTENDS OutboxJobs, ReproductionPlan

\* Some job has come to its end with a test.
Generated == \E k \in Key : kind[k] = "reproduction" /\ row[k] = "ready"

\* The plan of every session is the session: each interaction that can be found
\* again is in it once and in the order in which it happened, the last of
\* consecutive fills wins, a navigation is expected after a click and made after
\* a fill or another navigation, and the reader is warned exactly when a value is
\* missing.  One pass that takes back what it has emitted and compares indexes
\* comes to the same.
PlanFollowsSession == Generated => Betrayed = {}

\* A plan depends on what was recorded and not on the order in which the events
\* reached the table, even when sequence numbers and times are the same.
PlanIsDeterministic == Generated => DependOnArrival = {}

\* No usable candidate is stronger than the one that is selected: a brittle one
\* is taken only when nothing else builds, and one that does not build never
\* hides one that does.
LocatorIsStrongest == Generated => WeaklyLocated = {}
=============================================================================
