--------------------------- MODULE IssueAccounting ---------------------------
(***************************************************************************)
(* What event processing promises about the numbers of an issue: every     *)
(* event is counted in at most one issue and at most once, and the numbers *)
(* shown for an issue are those of exactly the events counted in it.       *)
(***************************************************************************)
EXTENDS Naturals, FiniteSets

CONSTANTS
  Event,       \* ids of stored events
  Issue,       \* issues, one per fingerprint
  SessionOf,   \* the telemetry session of each event
  OccurredAt   \* the client time of each event

VARIABLES
  counted,     \* the events counted in each issue
  closed,      \* the events that ended without an issue
  totals       \* the numbers shown for each issue

vars == <<counted, closed, totals>>

Nothing == [occurrences |-> 0, sessions |-> 0, first |-> 0, last |-> 0]

\* The smallest and the largest number in a set of times.
Earliest(T) == CHOOSE t \in T : \A u \in T : t <= u
Latest(T)   == CHOOSE t \in T : \A u \in T : t >= u

Summary(S) ==
  IF S = {} THEN Nothing
  ELSE [occurrences |-> Cardinality(S),
        sessions    |-> Cardinality({SessionOf[e] : e \in S}),
        first       |-> Earliest({OccurredAt[e] : e \in S}),
        last        |-> Latest({OccurredAt[e] : e \in S})]

Ended(e) == e \in closed \/ \E i \in Issue : e \in counted[i]

Init ==
  /\ counted = [i \in Issue |-> {}]
  /\ closed = {}
  /\ totals = [i \in Issue |-> Nothing]

Count(e, i) ==
  /\ ~Ended(e)
  /\ counted' = [counted EXCEPT ![i] = @ \cup {e}]
  /\ totals' = [totals EXCEPT ![i] = Summary(counted[i] \cup {e})]
  /\ UNCHANGED closed

Close(e) ==
  /\ ~Ended(e)
  /\ closed' = closed \cup {e}
  /\ UNCHANGED <<counted, totals>>

Next == \E e \in Event : Close(e) \/ \E i \in Issue : Count(e, i)

Spec == Init /\ [][Next]_vars
=============================================================================
