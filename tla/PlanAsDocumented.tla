--------------------------- MODULE PlanAsDocumented ---------------------------
(***************************************************************************)
(* One session with several failures, for each of which a user requests a  *)
(* test, and what the comments of plan.ts and the document on the          *)
(* generator say of the navigations in these tests.  ReproductionPlan is   *)
(* silent on both points.                                                  *)
(***************************************************************************)
EXTENDS ReproductionPlan

VARIABLES
  session,  \* what was recorded
  plan      \* the plan for each failure, None before its test is requested

vars == <<session, plan>>

Failures == {i \in DOMAIN session : session[i].type = "exception"}

Init ==
  /\ session \in Sessions
  /\ plan = [i \in Failures |-> None]

\* The job of a request builds its plan from the session up to the failure.
Generate(i) ==
  /\ plan[i] = None
  /\ plan' = [plan EXCEPT ![i] = BuildReproductionPlan(Evidence(session, session[i]))]
  /\ UNCHANGED session

Next == \E i \in Failures : Generate(i)

Spec == Init /\ [][Next]_vars

-----------------------------------------------------------------------------
\* A URL is expected only as the effect of the click before it.
ExpectsEffectsOfClicks(made) ==
  \A k \in DOMAIN made.actions :
    made.actions[k].kind = "expectUrl" => k > 1 /\ made.actions[k - 1].kind = "click"

\* When the window has cut all navigations off, the earliest is pulled in as the
\* place to start from.
StartsAtEarliest(made, i) ==
  LET went == {j \in 1..i : /\ session[j].type = "navigation"
                            /\ session[j].to \notin {None, Unsafe}}
      earliest == {j \in went : \A k \in went : j <= k}
      cutOff   == \A j \in went : j <= i - TimelineWindow
  IN  cutOff => \A j \in earliest : made.start = session[j].to

\* The tests of a session navigate as documented, once there is one for each of
\* its failures (plan.ts:98-102 and 183-188,
\* docs/architecture/reproduction-generator.md:117-119 and 142-145).
NavigatesAsDocumented ==
  (\A i \in Failures : plan[i] # None) =>
    \A i \in Failures : ExpectsEffectsOfClicks(plan[i]) /\ StartsAtEarliest(plan[i], i)
=============================================================================
