--------------------------- MODULE EventProcessing ---------------------------
(***************************************************************************)
(* processEvent: how the worker's concurrent consumers group stored events *)
(* into issues, against dashboard users who triage the same issues.        *)
(*                                                                         *)
(* Each step of a consumer is one statement of its transaction that can    *)
(* block or read what another transaction writes.  Row locks are derived   *)
(* from the program counters; what a transaction writes reaches the tables *)
(* at its commit, because nobody can read the rows it holds before that.   *)
(* An event may be delivered any number of times, to two consumers at once *)
(* too: pg-boss redelivers after a retry, an expiry or a crash.            *)
(***************************************************************************)
EXTENDS Naturals, FiniteSets, Sequences

CONSTANTS
  Event,        \* stored events of one project
  Worker,       \* concurrent consumers of replaybug.process-event
  Fingerprint,  \* grouping keys, and so the issues of the project
  Member,       \* workspace members who triage
  None,         \* SQL null, and "nothing yet" in local states
  Plans,        \* what each event may be grouped as, see Symbolicate
  SessionOf,    \* the telemetry session of each event
  OccurredAt,   \* the client time of each event
  ReleaseOf,    \* the release of each event
  MaxTriage,    \* bound: status changes and assignments
  MaxFaults     \* bound: aborted transactions

\* Outcomes of deriveEventProcessingPlan other than a fingerprint.
Malformed == "malformed"
NonIssue  == "non_issue"
Plan == Fingerprint \cup {Malformed, NonIssue}

ASSUME ConstantsAssumption ==
  /\ None \notin Event \cup Plan \cup Member
  /\ Malformed \notin Fingerprint /\ NonIssue \notin Fingerprint
  /\ Plans \in [Event -> SUBSET Plan]
  /\ OccurredAt \in [Event -> Nat]
  /\ Event = DOMAIN SessionOf /\ Event = DOMAIN ReleaseOf
  /\ MaxTriage \in Nat /\ MaxFaults \in Nat

VARIABLES
  event,      \* processing_state and issue of each event row
  issue,      \* the issue row of each fingerprint
  affected,   \* issue_affected_sessions: the sessions of each issue
  timeline,   \* issue_activities of each issue, oldest first
  notices,    \* notifications about each issue, oldest first
  tx,         \* what each consumer is doing
  triaged,    \* triage actions so far
  faults      \* aborted transactions so far

vars == <<event, issue, affected, timeline, notices, tx, triaged, faults>>

-----------------------------------------------------------------------------
\* Rows and local states

Status  == {"open", "investigating", "resolved", "ignored"}
Session == {SessionOf[e] : e \in Event}
Release == {ReleaseOf[e] : e \in Event}

EventRow == [state : {"pending", "processed", "rejected"},
             issue : Fingerprint \cup {None}]

IssueRow ==
  [exists : BOOLEAN, status : Status, resolved : BOOLEAN,
   assignee : Member \cup {None}, occurrences : Nat, sessions : Nat,
   first : Nat, last : Nat,
   firstRelease : Release \cup {None}, lastRelease : Release \cup {None}]

NoIssue ==
  [exists |-> FALSE, status |-> "open", resolved |-> FALSE, assignee |-> None,
   occurrences |-> 0, sessions |-> 0, first |-> 0, last |-> 0,
   firstRelease |-> None, lastRelease |-> None]

Entry == [type : {"created", "regression_detected", "status_changed",
                  "assigned", "unassigned"},
          value : Status \cup Member \cup {None}]

Notice == [type : {"issue_regression", "issue_assigned"}, user : Member]

TxState ==
  [pc : {"idle", "symbolicated", "locked", "insert", "relock", "grouped", "counted"},
   event : Event \cup {None}, plan : Plan \cup {None},
   created : BOOLEAN, status : Status \cup {None}, assignee : Member \cup {None},
   newSession : BOOLEAN]

\* A transaction that has not reached its issue row yet.
At(pc, e, plan) ==
  [pc |-> pc, event |-> e, plan |-> plan, created |-> FALSE,
   status |-> None, assignee |-> None, newSession |-> FALSE]

IdleTx == At("idle", None, None)

\* FOR UPDATE on the event row, from LockEvent to the end of the transaction.
HoldsEvent(w, e) ==
  tx[w].event = e /\ tx[w].pc \notin {"idle", "symbolicated"}

\* FOR UPDATE on the issue row, or the uncommitted insert of it.
HoldsIssue(w, f) ==
  tx[w].plan = f /\ tx[w].pc \in {"grouped", "counted"}

\* Mutant of IssueFree: the row is read without FOR UPDATE.
IssueNeverLocked(f) == TRUE

IssueFree(f) == \A w \in Worker : ~HoldsIssue(w, f)

-----------------------------------------------------------------------------
Init ==
  /\ event = [e \in Event |-> [state |-> "pending", issue |-> None]]
  /\ issue = [f \in Fingerprint |-> NoIssue]
  /\ affected = [f \in Fingerprint |-> {}]
  /\ timeline = [f \in Fingerprint |-> <<>>]
  /\ notices = [f \in Fingerprint |-> <<>>]
  /\ tx = [w \in Worker |-> IdleTx]
  /\ triaged = 0
  /\ faults = 0

\* Steps A and B, before the transaction: preload the event and symbolicate
\* it.  Source maps uploaded or deleted between two attempts can change the
\* fingerprint, so the plan is chosen anew in each of them.
Symbolicate(w, e) ==
  /\ tx[w].pc = "idle"
  /\ \E plan \in Plans[e] :
       tx' = [tx EXCEPT ![w] = At("symbolicated", e, plan)]
  /\ UNCHANGED <<event, issue, affected, timeline, notices, triaged, faults>>

\* Mutant of LockEvent: the state of the locked row is not looked at.
LockEventWithoutRecheck(w) ==
  /\ tx[w].pc = "symbolicated"
  /\ \A v \in Worker : ~HoldsEvent(v, tx[w].event)
  /\ tx' = [tx EXCEPT ![w] = At("locked", tx[w].event, tx[w].plan)]
  /\ UNCHANGED <<event, issue, affected, timeline, notices, triaged, faults>>

\* Step C: lock the event row.  An event that has ended already is a no-op.
LockEvent(w) ==
  /\ tx[w].pc = "symbolicated"
  /\ \A v \in Worker : ~HoldsEvent(v, tx[w].event)
  /\ tx' = [tx EXCEPT ![w] =
       IF event[tx[w].event].state = "pending"
         THEN At("locked", tx[w].event, tx[w].plan)
         ELSE IdleTx]
  /\ UNCHANGED <<event, issue, affected, timeline, notices, triaged, faults>>

\* The stored payload cannot be grouped, or is of a kind that is never grouped.
CommitUngrouped(w) ==
  /\ tx[w].pc = "locked"
  /\ tx[w].plan \in {Malformed, NonIssue}
  /\ event' = [event EXCEPT ![tx[w].event] =
       [state |-> IF tx[w].plan = Malformed THEN "rejected" ELSE "processed",
        issue |-> None]]
  /\ tx' = [tx EXCEPT ![w] = IdleTx]
  /\ UNCHANGED <<issue, affected, timeline, notices, triaged, faults>>

\* A transaction that has locked the committed issue row, as it reads it.
Grouped(w) ==
  LET row == issue[tx[w].plan]
  IN  [pc |-> "grouped", event |-> tx[w].event, plan |-> tx[w].plan,
       created |-> FALSE, status |-> row.status, assignee |-> row.assignee,
       newSession |-> FALSE]

\* lockOrCreateIssue, first statement: lock the issue row.  An insert that is
\* not committed is invisible to it and does not block it.
LockIssue(w) ==
  /\ tx[w].pc = "locked"
  /\ tx[w].plan \in Fingerprint
  /\ \/ /\ issue[tx[w].plan].exists
        /\ IssueFree(tx[w].plan)
        /\ tx' = [tx EXCEPT ![w] = Grouped(w)]
     \/ /\ ~issue[tx[w].plan].exists
        /\ tx' = [tx EXCEPT ![w] = At("insert", tx[w].event, tx[w].plan)]
  /\ UNCHANGED <<event, issue, affected, timeline, notices, triaged, faults>>

\* Second statement: INSERT ... ON CONFLICT DO NOTHING.  It waits for another
\* transaction's insert of the same key to commit or to be rolled back.
InsertIssueIfAbsent(w) ==
  /\ tx[w].pc = "insert"
  /\ IssueFree(tx[w].plan)
  /\ tx' = [tx EXCEPT ![w] =
       IF issue[tx[w].plan].exists
         THEN At("relock", tx[w].event, tx[w].plan)
         ELSE [pc |-> "grouped", event |-> tx[w].event, plan |-> tx[w].plan,
               created |-> TRUE, status |-> "open", assignee |-> None,
               newSession |-> FALSE]]
  /\ UNCHANGED <<event, issue, affected, timeline, notices, triaged, faults>>

\* Mutant of RelockIssue: the row that won is only read.
RelockIssueUnlocked(w) ==
  /\ tx[w].pc = "relock"
  /\ tx' = [tx EXCEPT ![w] = Grouped(w)]
  /\ UNCHANGED <<event, issue, affected, timeline, notices, triaged, faults>>

\* Third statement: lock the row that won the race.
RelockIssue(w) ==
  /\ tx[w].pc = "relock"
  /\ IssueFree(tx[w].plan)
  /\ tx' = [tx EXCEPT ![w] = Grouped(w)]
  /\ UNCHANGED <<event, issue, affected, timeline, notices, triaged, faults>>

\* recordIssueAffectedSession: true only for the first event of the session.
RecordIssueAffectedSession(w) ==
  /\ tx[w].pc = "grouped"
  /\ tx' = [tx EXCEPT ![w] =
       [pc |-> "counted", event |-> tx[w].event, plan |-> tx[w].plan,
        created |-> tx[w].created, status |-> tx[w].status,
        assignee |-> tx[w].assignee,
        newSession |-> SessionOf[tx[w].event] \notin affected[tx[w].plan]]]
  /\ UNCHANGED <<event, issue, affected, timeline, notices, triaged, faults>>

ReopensAsRegression(w) == ~tx[w].created /\ tx[w].status = "resolved"

\* insertIssueIfAbsent: the row before its first occurrence is recorded.
NewIssue(e) ==
  [exists |-> TRUE, status |-> "open", resolved |-> FALSE, assignee |-> None,
   occurrences |-> 0, sessions |-> 0,
   first |-> OccurredAt[e], last |-> OccurredAt[e],
   firstRelease |-> ReleaseOf[e], lastRelease |-> ReleaseOf[e]]

\* Mutant of Occurrence: the release of the newest arrival always wins.
OccurrenceOfLatestArrival(row, e, newSession, reopen) ==
  [exists       |-> TRUE,
   status       |-> IF reopen THEN "open" ELSE row.status,
   resolved     |-> IF reopen THEN FALSE ELSE row.resolved,
   assignee     |-> row.assignee,
   occurrences  |-> row.occurrences + 1,
   sessions     |-> IF newSession THEN row.sessions + 1 ELSE row.sessions,
   first        |-> IF OccurredAt[e] < row.first THEN OccurredAt[e] ELSE row.first,
   last         |-> IF OccurredAt[e] > row.last THEN OccurredAt[e] ELSE row.last,
   firstRelease |-> IF OccurredAt[e] < row.first THEN ReleaseOf[e] ELSE row.firstRelease,
   lastRelease  |-> ReleaseOf[e]]

\* recordIssueOccurrence: every expression reads the row before the update.
Occurrence(row, e, newSession, reopen) ==
  [exists       |-> TRUE,
   status       |-> IF reopen THEN "open" ELSE row.status,
   resolved     |-> IF reopen THEN FALSE ELSE row.resolved,
   assignee     |-> row.assignee,
   occurrences  |-> row.occurrences + 1,
   sessions     |-> IF newSession THEN row.sessions + 1 ELSE row.sessions,
   first        |-> IF OccurredAt[e] < row.first THEN OccurredAt[e] ELSE row.first,
   last         |-> IF OccurredAt[e] > row.last THEN OccurredAt[e] ELSE row.last,
   firstRelease |-> IF OccurredAt[e] < row.first THEN ReleaseOf[e] ELSE row.firstRelease,
   lastRelease  |-> IF OccurredAt[e] > row.last THEN ReleaseOf[e] ELSE row.lastRelease]

\* The rest of the transaction, on rows it holds, and its commit.
CommitGrouped(w) ==
  LET e == tx[w].event
      f == tx[w].plan
      reopen == ReopensAsRegression(w)
  IN
  /\ tx[w].pc = "counted"
  /\ issue' = [issue EXCEPT ![f] =
       Occurrence(IF tx[w].created THEN NewIssue(e) ELSE issue[f],
                  e, tx[w].newSession, reopen)]
  /\ affected' = [affected EXCEPT ![f] = @ \cup {SessionOf[e]}]
  /\ event' = [event EXCEPT ![e] = [state |-> "processed", issue |-> f]]
  /\ timeline' = [timeline EXCEPT ![f] =
       IF tx[w].created
         THEN Append(@, [type |-> "created", value |-> "open"])
       ELSE IF reopen
         THEN Append(@, [type |-> "regression_detected", value |-> "open"])
       ELSE @]
  /\ notices' = [notices EXCEPT ![f] =
       IF reopen /\ tx[w].assignee # None
         THEN Append(@, [type |-> "issue_regression", user |-> tx[w].assignee])
         ELSE @]
  /\ tx' = [tx EXCEPT ![w] = IdleTx]
  /\ UNCHANGED <<triaged, faults>>

\* A transient failure or a crash: rolled back, and delivered again later.
Abort(w) ==
  /\ tx[w].pc # "idle"
  /\ faults < MaxFaults
  /\ faults' = faults + 1
  /\ tx' = [tx EXCEPT ![w] = IdleTx]
  /\ UNCHANGED <<event, issue, affected, timeline, notices, triaged>>

-----------------------------------------------------------------------------
\* Triage.  Each request locks the issue row, so it waits for a consumer that
\* holds it; a request that would change nothing is a no-op.

\* updateIssueRow with what a triage request patches.
Patched(row, status, resolved, assignee) ==
  [exists |-> TRUE, status |-> status, resolved |-> resolved,
   assignee |-> assignee, occurrences |-> row.occurrences,
   sessions |-> row.sessions, first |-> row.first, last |-> row.last,
   firstRelease |-> row.firstRelease, lastRelease |-> row.lastRelease]

UpdateIssueStatus(f, status) ==
  /\ triaged < MaxTriage
  /\ issue[f].exists /\ IssueFree(f)
  /\ issue[f].status # status
  /\ issue' = [issue EXCEPT
       ![f] = Patched(@, status, status = "resolved", @.assignee)]
  /\ timeline' = [timeline EXCEPT ![f] =
       Append(@, [type |-> "status_changed", value |-> status])]
  /\ triaged' = triaged + 1
  /\ UNCHANGED <<event, affected, notices, tx, faults>>

\* Mutant of UpdateIssueAssignee: nobody, unassigned, is notified.
UpdateIssueAssigneeToldAnyway(f, actor, user) ==
  /\ triaged < MaxTriage
  /\ issue[f].exists /\ IssueFree(f)
  /\ issue[f].assignee # user
  /\ issue' = [issue EXCEPT ![f] = Patched(@, @.status, @.resolved, user)]
  /\ timeline' = [timeline EXCEPT ![f] = Append(@,
       [type |-> IF user = None THEN "unassigned" ELSE "assigned", value |-> user])]
  /\ notices' = [notices EXCEPT ![f] =
       IF user # actor
         THEN Append(@, [type |-> "issue_assigned", user |-> user]) ELSE @]
  /\ triaged' = triaged + 1
  /\ UNCHANGED <<event, affected, tx, faults>>

UpdateIssueAssignee(f, actor, user) ==
  /\ triaged < MaxTriage
  /\ issue[f].exists /\ IssueFree(f)
  /\ issue[f].assignee # user
  /\ issue' = [issue EXCEPT ![f] = Patched(@, @.status, @.resolved, user)]
  /\ timeline' = [timeline EXCEPT ![f] = Append(@,
       [type |-> IF user = None THEN "unassigned" ELSE "assigned", value |-> user])]
  /\ notices' = [notices EXCEPT ![f] =
       IF user \notin {None, actor}
         THEN Append(@, [type |-> "issue_assigned", user |-> user]) ELSE @]
  /\ triaged' = triaged + 1
  /\ UNCHANGED <<event, affected, tx, faults>>

-----------------------------------------------------------------------------
Consume(w) ==
  \/ LockEvent(w) \/ CommitUngrouped(w) \/ LockIssue(w) \/ InsertIssueIfAbsent(w)
  \/ RelockIssue(w) \/ RecordIssueAffectedSession(w) \/ CommitGrouped(w)

Next ==
  \/ \E w \in Worker : \/ \E e \in Event : Symbolicate(w, e)
                       \/ Consume(w) \/ Abort(w)
  \/ \E f \in Fingerprint :
       \/ \E status \in Status : UpdateIssueStatus(f, status)
       \/ \E actor \in Member, user \in Member \cup {None} :
            UpdateIssueAssignee(f, actor, user)

Spec == Init /\ [][Next]_vars

-----------------------------------------------------------------------------
\* Every variable has the shape of the rows and local states above.
TypeOK ==
  /\ event \in [Event -> EventRow]
  /\ issue \in [Fingerprint -> IssueRow]
  /\ affected \in [Fingerprint -> SUBSET Session]
  /\ timeline \in [Fingerprint -> Seq(Entry)]
  /\ notices \in [Fingerprint -> Seq(Notice)]
  /\ tx \in [Worker -> TxState]
  /\ triaged \in 0..MaxTriage
  /\ faults \in 0..MaxFaults

\* The events whose row points at the issue, and those that ended without one.
CountedIn(f) == {e \in Event : event[e].state = "processed" /\ event[e].issue = f}
Ungrouped    == {e \in Event : event[e].state # "pending" /\ event[e].issue = None}

\* occurrence_count, affected_session_count, first_seen_at and last_seen_at.
Numbers(f) ==
  [occurrences |-> issue[f].occurrences, sessions |-> issue[f].sessions,
   first |-> issue[f].first, last |-> issue[f].last]

Acc == INSTANCE IssueAccounting WITH
         Issue   <- Fingerprint,
         counted <- [f \in Fingerprint |-> CountedIn(f)],
         closed  <- Ungrouped,
         totals  <- [f \in Fingerprint |-> Numbers(f)]

\* However often an event is delivered, by however many consumers at once and
\* whichever of them is rolled back, it is counted once and in one issue, and
\* the numbers of an issue are those of its events: the increments, the LEAST
\* and GREATEST and the distinct sessions never drift from the event rows.
RefinesAccounting == Acc!Spec

\* first_release and last_release are releases of events of the issue that
\* define first_seen_at and last_seen_at, in whatever order events arrive.
ReleasesFollowTimes ==
  \A f \in Fingerprint : issue[f].exists =>
    /\ \E e \in CountedIn(f) :
         /\ OccurredAt[e] = issue[f].first
         /\ ReleaseOf[e] = issue[f].firstRelease
    /\ \E e \in CountedIn(f) :
         /\ OccurredAt[e] = issue[f].last
         /\ ReleaseOf[e] = issue[f].lastRelease

\* What the first n entries of a timeline say: the value of the latest of them
\* that has one of the given types.
LatestValue(entries, n, types) ==
  LET I == {i \in 1..n : entries[i].type \in types}
  IN  IF I = {} THEN None
      ELSE entries[CHOOSE i \in I : \A j \in I : j <= i].value

StatusAfter(entries, n) ==
  LatestValue(entries, n, {"created", "regression_detected", "status_changed"})
AssigneeAfter(entries, n) == LatestValue(entries, n, {"assigned", "unassigned"})

\* The timeline is the history of the row: it starts with the one "created",
\* every entry changes what the entries before it left, a regression follows
\* nothing but a resolved status, and it ends in the status and the assignee
\* that the row has.  Consumers and triage requests that race cannot write a
\* regression twice, lose a transition or leave one behind that never was.
TimelineExplainsIssue ==
  \A f \in Fingerprint :
    LET T == timeline[f] IN
    /\ issue[f].exists <=> T # <<>>
    /\ \A i \in DOMAIN T : T[i].type = "created" <=> i = 1
    /\ \A i \in DOMAIN T : T[i].type = "regression_detected" =>
         StatusAfter(T, i - 1) = "resolved"
    /\ \A i \in DOMAIN T : T[i].type = "status_changed" =>
         StatusAfter(T, i - 1) # T[i].value
    /\ \A i \in DOMAIN T : T[i].type \in {"assigned", "unassigned"} =>
         AssigneeAfter(T, i - 1) # T[i].value
    /\ issue[f].exists =>
         /\ issue[f].status = StatusAfter(T, Len(T))
         /\ issue[f].assignee = AssigneeAfter(T, Len(T))
         /\ issue[f].resolved <=> issue[f].status = "resolved"

\* Whoever is the assignee when a resolved issue regresses is told so exactly
\* once for each regression, and nobody else is, although assignment is
\* another transaction.
RegressionsAreNotified ==
  \A f \in Fingerprint, m \in Member :
    Cardinality({i \in DOMAIN notices[f] :
                   notices[f][i] = [type |-> "issue_regression", user |-> m]})
    = Cardinality({i \in DOMAIN timeline[f] :
                     /\ timeline[f][i].type = "regression_detected"
                     /\ AssigneeAfter(timeline[f], i) = m})

\* An occurrence is never buried in a resolved issue: the step that counts it
\* leaves the issue in another status, even when it is resolved meanwhile.
OccurrenceReopens ==
  [][\A f \in Fingerprint :
       issue'[f].occurrences # issue[f].occurrences
         => issue'[f].status # "resolved" /\ ~issue'[f].resolved]_vars
=============================================================================
