-------------------------------- MODULE Realtime --------------------------------
(***************************************************************************)
(* Live updates: a transaction that changes an issue notifies a channel;   *)
(* the broker of an API process listens to it and fans out to the streams  *)
(* of its subscribers; the dashboard fetches again the queries that an     *)
(* update names.                                                           *)
(*                                                                         *)
(* One browser with the queries of the components it shows.  The database  *)
(* is the number of changes committed, and what a query shows of it that   *)
(* number when it was read.  Notifications are delivered in the order of   *)
(* the commits, a stream in the order of its writes, and what is on a      *)
(* connection that breaks is lost.                                         *)
(***************************************************************************)
EXTENDS Naturals, Sequences

CONSTANTS
  Issue,
  UpdateType,  \* types of the changes that are committed
  Open,        \* queries of the components on screen
  MaxPending,  \* MAX_PENDING_PER_SUBSCRIBER
  MaxChanges,  \* bound: committed changes
  MaxFaults    \* bound: lost connections and failing fetches

ReproductionTypes == {"reproduction.ready", "reproduction.failed"}
AiAnalysisTypes   == {"ai_analysis.ready", "ai_analysis.failed"}
ProjectUpdateType ==
  {"issue.created", "issue.updated", "issue.regressed", "comment.created",
   "assignment.changed", "tags.changed"} \cup ReproductionTypes \cup AiAnalysisTypes

\* Queries below ["issues", issueId], which its key names together; the record of
\* a reproduction or an analysis has a key of its own, with its id.
BelowIssue == {"issue", "comments", "activity", "occurrences", "reproductions", "ai-analyses"}
Records    == {"reproduction", "ai-analysis"}
Shared     == {"issues", "metrics", "tags", "notifications"}

Query == [name : BelowIssue \cup Records, of : {{i} : i \in Issue}]
           \cup [name : Shared, of : {{}}]

ASSUME ConstantsAssumption ==
  /\ UpdateType \subseteq ProjectUpdateType
  /\ Open \subseteq Query
  /\ MaxPending \in Nat \ {0} /\ MaxChanges \in Nat /\ MaxFaults \in Nat

VARIABLES
  changes,   \* transactions committed
  listening, \* the broker's LISTEN is established
  channel,   \* notifications on its connection
  handler,   \* what the API does for the browser's stream
  queue,     \* the subscriber's queue
  leaked,    \* subscribers whose socket had closed before they subscribed
  wire,      \* frames on the stream
  client,    \* the browser's connection
  status,    \* what the dashboard says of it
  data,      \* what each query shows, {} before its first answer
  asked,     \* queries with a request on its way to the API
  answer,    \* what is on its way back
  failed,    \* queries whose last fetch has failed
  named,     \* ghost: the last change whose update names the query
  joined,    \* ghost: queries an update found on their first fetch, already read
  base,      \* ghost: the database when the stream became ready
  unbroken,  \* ghost: no connection was lost since
  coalesced, \* ghost: the queue has overflown since
  faults

database == <<changes, named>>
broker   == <<listening, channel, handler, queue, leaked>>
browser  == <<client, status>>
fetches  == <<data, asked, answer, failed, joined>>
ghosts   == <<base, unbroken, coalesced>>
vars == <<changes, named, listening, channel, handler, queue, leaked, wire, client, status,
          data, asked, answer, failed, joined, base, unbroken, coalesced, faults>>

-----------------------------------------------------------------------------
\* Updates and what they name

\* What a transaction notifies: an update about a reproduction or an analysis has
\* its id.
Update(i, t) == [type |-> t, issue |-> i, id |-> t \in ReproductionTypes \cup AiAnalysisTypes]

\* What of it is written to a stream: the id of a reproduction is not.
toStreamPayload(u) == [u EXCEPT !.id = u.id /\ u.type \in AiAnalysisTypes]

Invalidated(u) ==
  LET Record(name) == IF u.id THEN {name} ELSE {}
      names ==
        CASE u.type \in {"issue.created", "issue.updated", "issue.regressed"} ->
               BelowIssue \cup {"issues", "metrics"}
          [] u.type = "comment.created"      -> BelowIssue
          [] u.type = "assignment.changed"   -> BelowIssue \cup {"issues"}
          [] u.type = "tags.changed"         -> BelowIssue \cup {"issues", "tags"}
          [] u.type = "reproduction.ready"   ->
               {"reproductions", "activity"} \cup Record("reproduction")
          [] u.type = "reproduction.failed"  -> {"notifications"} \cup Record("reproduction")
          [] u.type \in AiAnalysisTypes      ->
               {"ai-analyses", "activity", "notifications"} \cup Record("ai-analysis")
  IN  {q \in Open : q.name \in names /\ q.of \subseteq {u.issue}}

Ready(live) == [type |-> "ready", live |-> live]

-----------------------------------------------------------------------------
\* The page is there: its queries are fetched for the first time.
Init ==
  /\ changes = 0
  /\ named = [q \in Open |-> 0]
  /\ listening = FALSE
  /\ channel = <<>>
  /\ handler = "none"
  /\ queue = <<>>
  /\ leaked = 0
  /\ wire = <<>>
  /\ client = "off"
  /\ status = "connecting"
  /\ data = [q \in Open |-> {}]
  /\ asked = Open
  /\ answer = [q \in Open |-> {}]
  /\ failed = {}
  /\ joined = {}
  /\ base = 0
  /\ unbroken = FALSE
  /\ coalesced = FALSE
  /\ faults = 0

Fault == faults < MaxFaults /\ faults' = faults + 1

-----------------------------------------------------------------------------
\* The database and the broker

\* A transaction changes an issue or what belongs to it, and notifies; both are
\* there when it commits.
Change(i, t) ==
  /\ changes < MaxChanges
  /\ changes' = changes + 1
  /\ named' = [q \in Open |-> IF q \in Invalidated(toStreamPayload(Update(i, t)))
                               THEN changes + 1 ELSE named[q]]
  /\ channel' = IF listening THEN Append(channel, Update(i, t)) ELSE channel
  /\ UNCHANGED <<listening, handler, queue, leaked, wire, browser, fetches, ghosts, faults>>

\* The broker connects for its first stream and again after a loss.
ensureConnected ==
  /\ ~listening
  /\ handler # "none" \/ leaked > 0
  /\ listening' = TRUE
  /\ UNCHANGED <<database, channel, handler, queue, leaked, wire, browser, fetches, ghosts,
                 faults>>

dropClient ==
  /\ listening
  /\ listening' = FALSE
  /\ channel' = <<>>
  /\ unbroken' = FALSE
  /\ Fault
  /\ UNCHANGED <<database, handler, queue, leaked, wire, browser, fetches, base, coalesced>>

\* Variant: the queue has no bound.
handleNotificationUnbounded ==
  /\ channel # <<>>
  /\ channel' = Tail(channel)
  /\ queue' = IF handler = "open" THEN Append(queue, Head(channel)) ELSE queue
  /\ UNCHANGED <<database, listening, handler, leaked, wire, browser, fetches, ghosts, faults>>

\* Variant: a full queue turns the update away.
handleNotificationDropped ==
  /\ channel # <<>>
  /\ channel' = Tail(channel)
  /\ queue' = IF handler = "open" /\ Len(queue) < MaxPending
               THEN Append(queue, Head(channel)) ELSE queue
  /\ coalesced' = (coalesced \/ Len(queue) >= MaxPending)
  /\ UNCHANGED <<database, listening, handler, leaked, wire, browser, fetches, base, unbroken,
                 faults>>

\* A full queue is emptied for the update.
handleNotification ==
  /\ channel # <<>>
  /\ channel' = Tail(channel)
  /\ \/ /\ handler # "open"
        /\ UNCHANGED <<queue, coalesced>>
     \/ /\ handler = "open"
        /\ Len(queue) < MaxPending
        /\ queue' = Append(queue, Head(channel))
        /\ UNCHANGED coalesced
     \/ /\ handler = "open"
        /\ Len(queue) >= MaxPending
        /\ queue' = <<Head(channel)>>
        /\ coalesced' = TRUE
  /\ UNCHANGED <<database, listening, handler, leaked, wire, browser, fetches, base, unbroken,
                 faults>>

\* The callback writes the whole queue to the stream.
scheduleFlush ==
  /\ queue # <<>>
  /\ wire' = wire \o [n \in 1..Len(queue) |-> toStreamPayload(queue[n])]
  /\ queue' = <<>>
  /\ UNCHANGED <<database, listening, channel, handler, leaked, browser, fetches, ghosts, faults>>

-----------------------------------------------------------------------------
\* The stream

\* A new EventSource, at first and after a delay; the API checks the access and
\* waits for the broker.
connect ==
  /\ client \in {"off", "backoff"}
  /\ client' = "open"
  /\ status' = IF client = "off" THEN "connecting" ELSE "reconnecting"
  /\ handler' = "waiting"
  /\ UNCHANGED <<database, listening, channel, queue, leaked, wire, fetches, ghosts, faults>>

\* The broker listens, or 5 s have passed: the ready frame, then the subscription.
Subscribe ==
  /\ handler = "waiting"
  /\ wire' = <<Ready(listening)>>
  /\ handler' = "open"
  /\ base' = changes
  /\ unbroken' = listening
  /\ coalesced' = FALSE
  /\ UNCHANGED <<database, listening, channel, queue, leaked, browser, fetches, faults>>

\* The connection breaks.  Closing cleans up after a subscription; a handler that
\* still waits has not registered for it, and will subscribe.
onerror ==
  /\ client = "open"
  /\ client' = "backoff"
  /\ status' = "reconnecting"
  /\ handler' = "none"
  /\ leaked' = IF handler = "waiting" THEN leaked + 1 ELSE leaked
  /\ queue' = <<>>
  /\ wire' = <<>>
  /\ unbroken' = FALSE
  /\ Fault
  /\ UNCHANGED <<database, listening, channel, fetches, base, coalesced>>

-----------------------------------------------------------------------------
\* The dashboard

ReadyFrame ==
  /\ wire # <<>>
  /\ Head(wire).type = "ready"
  /\ status' = IF Head(wire).live THEN "connected" ELSE "degraded"
  /\ wire' = Tail(wire)
  /\ UNCHANGED <<database, broker, client, fetches, ghosts, faults>>

\* Variant: a query that is being fetched is not fetched again.
invalidateForUpdateOnce ==
  /\ wire # <<>>
  /\ Head(wire).type # "ready"
  /\ wire' = Tail(wire)
  /\ asked' = asked \cup {q \in Invalidated(Head(wire)) : answer[q] = {}}
  /\ joined' = joined \cup {q \in Invalidated(Head(wire)) : data[q] = {} /\ answer[q] # {}}
  /\ UNCHANGED <<database, broker, browser, data, answer, failed, ghosts, faults>>

\* A query that shows something is fetched anew, and the fetch it was on is
\* cancelled; one without data waits for the fetch it is on.
invalidateForUpdate ==
  /\ wire # <<>>
  /\ Head(wire).type # "ready"
  /\ wire' = Tail(wire)
  /\ LET joins == {q \in Invalidated(Head(wire)) : data[q] = {} /\ answer[q] # {}}
         fetched == Invalidated(Head(wire)) \ joins
     IN  /\ asked' = asked \cup fetched
         /\ answer' = [q \in Open |-> IF q \in fetched THEN {} ELSE answer[q]]
         /\ joined' = (joined \ fetched) \cup joins
  /\ UNCHANGED <<database, broker, browser, data, failed, ghosts, faults>>

Read(q) ==
  /\ q \in asked
  /\ asked' = asked \ {q}
  /\ answer' = [answer EXCEPT ![q] = {changes}]
  /\ UNCHANGED <<database, broker, wire, browser, data, failed, joined, ghosts, faults>>

Show(q) ==
  /\ answer[q] # {}
  /\ data' = [data EXCEPT ![q] = answer[q]]
  /\ answer' = [answer EXCEPT ![q] = {}]
  /\ failed' = failed \ {q}
  /\ UNCHANGED <<database, broker, wire, browser, asked, joined, ghosts, faults>>

\* No query is tried again.
FetchFails(q) ==
  /\ q \in asked \/ answer[q] # {}
  /\ asked' = asked \ {q}
  /\ answer' = [answer EXCEPT ![q] = {}]
  /\ failed' = failed \cup {q}
  /\ Fault
  /\ UNCHANGED <<database, broker, wire, browser, data, joined, ghosts>>

-----------------------------------------------------------------------------
Next ==
  \/ ensureConnected \/ dropClient \/ handleNotification \/ scheduleFlush
  \/ connect \/ Subscribe \/ onerror \/ ReadyFrame \/ invalidateForUpdate
  \/ \E i \in Issue, t \in UpdateType : Change(i, t)
  \/ \E q \in Open : Read(q) \/ Show(q) \/ FetchFails(q)

Spec == Init /\ [][Next]_vars

\* Timers, callbacks and requests that are due come.
Fairness ==
  /\ WF_vars(ensureConnected) /\ WF_vars(handleNotification) /\ WF_vars(scheduleFlush)
  /\ WF_vars(connect) /\ WF_vars(Subscribe)
  /\ WF_vars(ReadyFrame) /\ WF_vars(invalidateForUpdate)
  /\ \A q \in Open : WF_vars(Read(q)) /\ WF_vars(Show(q))

FairSpec == Spec /\ Fairness

-----------------------------------------------------------------------------
Updates == [type : ProjectUpdateType, issue : Issue, id : BOOLEAN]
Frames  == Updates \cup {Ready(TRUE), Ready(FALSE)}

\* Every variable has its shape, and the subscriber's queue its bound, whatever
\* the rate of changes (MAX_PENDING_PER_SUBSCRIBER, broker.ts:39).
TypeOK ==
  /\ changes \in 0..MaxChanges /\ base \in 0..MaxChanges
  /\ named \in [Open -> 0..MaxChanges]
  /\ listening \in BOOLEAN /\ unbroken \in BOOLEAN /\ coalesced \in BOOLEAN
  /\ channel \in Seq(Updates) /\ queue \in Seq(Updates) /\ wire \in Seq(Frames)
  /\ handler \in {"none", "waiting", "open"}
  /\ client \in {"off", "open", "backoff"}
  /\ status \in {"connecting", "connected", "degraded", "reconnecting"}
  /\ asked \subseteq Open /\ failed \subseteq Open /\ joined \subseteq Open
  /\ data \in [Open -> SUBSET (0..MaxChanges)] /\ answer \in [Open -> SUBSET (0..MaxChanges)]
  /\ leaked \in Nat /\ faults \in 0..MaxFaults
  /\ Len(queue) <= MaxPending

Names(frame, q) == frame.type # "ready" /\ q \in Invalidated(toStreamPayload(frame))

Announces(frames, q) == \E n \in 1..Len(frames) : Names(frames[n], q)

OnItsWay(q) ==
  \/ Announces(channel, q) \/ Announces(queue, q) \/ Announces(wire, q)
  \/ q \in asked

\* What was read has the last change that names the query.
Recent(q, read) == \E n \in read : n >= named[q]

\* As long as no connection was lost and the queue has not overflown, every
\* change since the ready frame is shown by the queries its update names, being
\* fetched, or announced: neither the gap between ready and subscription, nor a
\* refetch that has read too early, loses one (realtime.ts:172-182,
\* use-realtime.ts:104-114).  Only a first fetch that had read before the change
\* goes unrepeated, and a fetch that failed.
ChangesAreOnTheirWay ==
  unbroken /\ ~coalesced =>
    \A q \in Open \ (failed \cup joined) : named[q] > base =>
      \/ OnItsWay(q)
      \/ Recent(q, answer[q])
      \/ answer[q] = {} /\ Recent(q, data[q])

\* An overflow keeps the update that came last: as long as no connection is lost,
\* the queries it names come to show its change, with the same two exceptions
\* (broker.ts:199-207).
LatestChangeIsShown ==
  \A q \in Open :
    (unbroken /\ named[q] = changes /\ changes > base)
      ~> (~unbroken \/ named[q] # changes \/ Recent(q, data[q]) \/ q \in failed \cup joined)
=============================================================================
