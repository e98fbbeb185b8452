------------------------- MODULE MCEventProcessing -------------------------
(***************************************************************************)
(* EventProcessing for TLC.  Three events can meet in issue f1, delivered  *)
(* out of time order, two of one session; one of them is grouped elsewhere *)
(* when its source map is missing; one event is never grouped.             *)
(***************************************************************************)
EXTENDS EventProcessing, TLC

CONSTANTS e1, e2, e3, e4, f1, f2, m1, m2, w1, w2, r1, r2

MCEvent == {e1, e2, e3, e4}
MCFingerprint == {f1, f2}
MCMember == {m1, m2}
MCWorker == {w1, w2}

MCPlans == (e1 :> {f1}) @@ (e2 :> {f1, f2}) @@ (e3 :> {f1})
           @@ (e4 :> {Malformed, NonIssue})
MCSessionOf  == (e1 :> 1) @@ (e2 :> 1) @@ (e3 :> 2) @@ (e4 :> 2)
MCOccurredAt == (e1 :> 2) @@ (e2 :> 1) @@ (e3 :> 2) @@ (e4 :> 1)
MCReleaseOf  == (e1 :> r1) @@ (e2 :> r2) @@ (e3 :> r2) @@ (e4 :> r1)

\* Consumers do the same things, and so do members.
MCSymmetry == Permutations(MCWorker) \cup Permutations(MCMember)
=============================================================================
